---- MODULE Spec2Model ----
(***************************************************************************)
(* The consumer session registry of kim (internal/manager, MessageManager) *)
(* and the pump goroutine it launches per session.                         *)
(*                                                                         *)
(* StartConsumer, StopConsumer and StopAllConsumers hold mm.mutex for      *)
(* their whole body, so each is one atomic action.  consumeMessages runs   *)
(* concurrently: one action per select case, one for the deferred closes   *)
(* and one for the deferred delete, which takes mm.mutex on its own.       *)
(***************************************************************************)
EXTENDS Integers, Sequences, FiniteSets, TLC

\* ------------------------------------------------------------------ bounds
MaxEvents   == 3     \* inputs of one run: sessions created + messages and errors
                     \* the broker delivers, all streams together
MsgCap      == 1     \* capacity of session.Messages (100 in the source)
ErrCap      == 1     \* capacity of session.Errors (10 in the source)
HelpLines   == 6     \* lines of the help text the model keeps (33 in the source)
MaxScroll   == 7     \* the runs stop paging up once scrollOffset is this large
                     \* and past the content
MaxUnder    == 2     \* and stop paging down once it is this far below 0
MaxClock    == 32    \* minutes the clock of the token provider runs

\* sarama.OffsetOldest / sarama.OffsetNewest
OffsetOldest == -2
OffsetNewest == -1

Sessions == 1..MaxEvents

\* ------------------------------------------------------------------ inputs
\* types.ConsumeRequest values the callers send.  Two of the tuples differ but
\* format to the same key string; one has an empty topic, one an empty group.
Requests ==
    { [Topic |-> "a-b", GroupID |-> "g",   Partition |-> 0, FromBeginning |-> TRUE],
      [Topic |-> "a",   GroupID |-> "b-g", Partition |-> 0, FromBeginning |-> FALSE] }

\* Requests with an empty topic or an empty group.
InvalidRequests ==
    { [Topic |-> "",  GroupID |-> "g", Partition |-> 0, FromBeginning |-> FALSE],
      [Topic |-> "a", GroupID |-> "",  Partition |-> 1, FromBeginning |-> TRUE] }

\* The one request of the fair specification.
FairRequests ==
    { [Topic |-> "a-b", GroupID |-> "g", Partition |-> 0, FromBeginning |-> TRUE] }

\* Two requests whose keys do not collide: two partitions of one topic.
PartitionRequests ==
    { [Topic |-> "a-b", GroupID |-> "g", Partition |-> 0, FromBeginning |-> TRUE],
      [Topic |-> "a-b", GroupID |-> "g", Partition |-> 1, FromBeginning |-> FALSE] }

\* The session key as the specification defines it: the tuple.
KeyOf(r) == [Topic |-> r.Topic, GroupID |-> r.GroupID, Partition |-> r.Partition]

Keys == { KeyOf(r) : r \in Requests \cup InvalidRequests }

\* fmt.Sprintf("%s-%s-%d", topic, groupID, partition)
sessionKey(topic, groupID, partition) ==
    topic \o "-" \o groupID \o "-" \o ToString(partition)

NoSession == [Topic |-> "?", GroupID |-> "?", Partition |-> -1,
              FromBeginning |-> FALSE, Offset |-> 0]

\* ========================================================= interactive mode
\* internal/ui: InteractiveMode, the VIM-like terminal controller.  Its
\* methods are functions from the struct (and the key, and what the
\* collaborators answer) to the struct; Run's loop is two steps per
\* iteration: the frame (updateTerminalSize, render) and the key (readChar,
\* handleInput).  Strings are strings: buffers grow a character at a time and
\* the command line is trimmed and split as strings.TrimSpace and
\* strings.Fields do.  Len counts characters where Go's len counts bytes; the
\* two differ on the arrows of the help text only.

\* width and height NewInteractiveMode takes when term.GetSize reports 0
DefaultWidth  == 80
DefaultHeight == 24
\* rows kept for the status bar, the empty line, the command line and padding
ReservedLines == 4

\* --------------------------------------------------------------- strings
RECURSIVE Repeat(_, _)
\* strings.Repeat(s, n)
Repeat(s, n) ==
    IF n <= 0 THEN ""
    ELSE IF n % 2 = 0 THEN LET half == Repeat(s, n \div 2) IN half \o half
    ELSE s \o Repeat(s, n - 1)

\* fmt's %-Ns: s padded with spaces on the right to n characters
PadRight(s, n) == s \o Repeat(" ", n - Len(s))

RECURSIVE TrimLeft(_)
TrimLeft(s) == IF s # "" /\ Head(s) = " " THEN TrimLeft(Tail(s)) ELSE s

RECURSIVE TrimRight(_)
TrimRight(s) ==
    IF s # "" /\ SubSeq(s, Len(s), Len(s)) = " "
    THEN TrimRight(SubSeq(s, 1, Len(s) - 1))
    ELSE s

\* strings.TrimSpace(s); the only white space a buffer can hold is the space
TrimSpace(s) == TrimRight(TrimLeft(s))

RECURSIVE TokenLen(_)
\* the length of the run of non-space characters s starts with
TokenLen(s) == IF s = "" \/ Head(s) = " " THEN 0 ELSE 1 + TokenLen(Tail(s))

RECURSIVE Fields(_)
\* strings.Fields(s): the white-space separated tokens of s
Fields(s) ==
    LET t == TrimLeft(s) IN
    IF t = "" THEN << >>
    ELSE LET n == TokenLen(t) IN
         <<SubSeq(t, 1, n)>> \o Fields(SubSeq(t, n + 1, Len(t)))

\* s[:n], which panics unless 0 <= n <= len(s)
GoPrefix(s, n) ==
    IF 0 <= n /\ n <= Len(s)
    THEN [panic |-> FALSE, text |-> SubSeq(s, 1, n)]
    ELSE [panic |-> TRUE, text |-> ""]

\* s[a:b] of a slice, which panics unless 0 <= a <= b <= len(s)
GoSlice(s, a, b) ==
    IF 0 <= a /\ a <= b /\ b <= Len(s)
    THEN [panic |-> FALSE, lines |-> SubSeq(s, a + 1, b)]
    ELSE [panic |-> TRUE, lines |-> << >>]

\* ------------------------------------------------------------------ keys
\* The runes readChar returns.  A printable rune (32..126) is the string of
\* that one character; the control runes have names.
KeyEnter     == "CR"     \* '\r'
KeyNewline   == "LF"     \* '\n'
KeyEscape    == "ESC"    \* '\x1b'
KeyDelete    == "DEL"    \* '\x7f'
KeyBackspace == "BS"     \* '\b'
KeyCtrlU     == "^U"     \* '\x15'
KeyCtrlC     == "^C"     \* '\x03'
KeyCtrlA     == "^A"     \* '\x01', bound to nothing

\* char >= 32 && char <= 126
IsPrintable(char) == Len(char) = 1

\* ---------------------------------------------------------------- config
\* cfg.Profiles of the runs: one kafka profile.
Profiles ==
    [n \in {"dev"} |->
        [Type |-> "kafka", BootstrapServers |-> "localhost:9092", Region |-> ""]]

\* The configurations interactive mode is started with.
Configs == { [ActiveProfile |-> a, Profiles |-> Profiles] : a \in {"", "dev"} }

\* The orders in which a range over cfg.Profiles can visit the map.
ProfileOrders == { <<"dev">> }

\* The topics of the cluster: with the five lines showTopics puts above
\* them, a view of 20 lines.
ClusterTopics ==
    [i \in 1..15 |->
        [Name |-> "topic-" \o ToString(i), Partitions |-> 3, ReplicationFactor |-> 1]]

\* What the collaborators of showTopics answer: clientManager.GetClient fails
\* or not, topicManager.ListTopics fails or returns the topics.
TopicsOutcomes ==
    { [connectErr |-> "connection refused", listErr |-> "", Topics |-> << >>],
      [connectErr |-> "", listErr |-> "request timed out", Topics |-> << >>],
      [connectErr |-> "", listErr |-> "", Topics |-> << >>],
      [connectErr |-> "", listErr |-> "", Topics |-> ClusterTopics] }

\* What the world answers during one handleInput.
Envs == { [topics |-> t, order |-> o] : t \in TopicsOutcomes, o \in ProfileOrders }

\* What term.GetSize reports: <<0, 0>> when it fails.
TermSizes == { <<0, 0>>, <<80, 10>>, <<80, 4>>, <<80, 3>>, <<4, 24>> }

\* The text getHelpContent returns, split at its line ends.
HelpText ==
    << "KIM - KAFKA MANAGEMENT TOOL",
       "============================",
       "",
       "COMMANDS:",
       "  :help, :h             Show this help",
       "  :topics, :t           List all topics",
       "  :groups, :g           List consumer groups",
       "  :profile, :p          List profiles",
       "  :profile list         List all profiles",
       "  :profile use <name>   Switch to profile",
       "  :refresh, :r          Refresh current view",
       "  :clear, :c            Clear screen",
       "  :q, :quit, :exit      Quit",
       "",
       "NAVIGATION:",
       "  j/↓                   Scroll down",
       "  k/↑                   Scroll up",
       "  f/PgDn               Page down",
       "  b/PgUp               Page up",
       "  g                     Go to top",
       "  G                     Go to bottom",
       "  r                     Refresh current view",
       "",
       "SEARCH:",
       "  /<pattern>           Search for pattern",
       "",
       "MODES:",
       "  :                    Enter command mode",
       "  /                    Enter search mode",
       "  ESC                  Exit current mode",
       "",
       "Press 'q' to quit or ':' to enter a command.",
       "" >>

\* strings.Split(getHelpContent(), "\n"), cut to its first HelpLines lines.
getHelpContent == SubSeq(HelpText, 1, HelpLines)

\* NewInteractiveMode(cfg, log), with size what term.GetSize reported
NewInteractiveMode(cfg, size) ==
    LET w == IF size[1] = 0 THEN DefaultWidth ELSE size[1]
        h == IF size[2] = 0 THEN DefaultHeight ELSE size[2] IN
    [cfg |-> cfg,
     currentView |-> "help",
     content |-> getHelpContent,
     statusMsg |-> "Ready - Type :help for commands",
     width |-> w,
     height |-> h,
     inCommandMode |-> FALSE,
     inSearchMode |-> FALSE,
     currentCmd |-> "",
     searchPattern |-> "",
     scrollOffset |-> 0,
     visibleLines |-> h - ReservedLines]

\* im.updateTerminalSize()
updateTerminalSize(m, size) ==
    IF size[1] > 0 /\ size[2] > 0
    THEN [m EXCEPT !.width = size[1], !.height = size[2],
                   !.visibleLines = size[2] - ReservedLines]
    ELSE m

\* ------------------------------------------------------------- scrolling
scrollDown(m) ==
    IF m.scrollOffset < Len(m.content) - m.visibleLines
    THEN [m EXCEPT !.scrollOffset = @ + 1]
    ELSE m

scrollUp(m) ==
    IF m.scrollOffset > 0 THEN [m EXCEPT !.scrollOffset = @ - 1] ELSE m

scrollPageDown(m) ==
    LET o == m.scrollOffset + m.visibleLines IN
    IF o >= Len(m.content)
    THEN [m EXCEPT !.scrollOffset =
                      IF Len(m.content) - 1 < 0 THEN 0 ELSE Len(m.content) - 1]
    ELSE [m EXCEPT !.scrollOffset = o]

scrollPageUp(m) ==
    LET o == m.scrollOffset - m.visibleLines IN
    [m EXCEPT !.scrollOffset = IF o < 0 THEN 0 ELSE o]

scrollToTop(m) == [m EXCEPT !.scrollOffset = 0]

\* A scrollToBottom that puts the last line at the top of the window.
scrollToBottom_LastLine(m) ==
    [m EXCEPT !.scrollOffset = IF Len(m.content) = 0 THEN 0 ELSE Len(m.content) - 1]

scrollToBottom(m) ==
    LET o == Len(m.content) - m.visibleLines IN
    [m EXCEPT !.scrollOffset = IF o < 0 THEN 0 ELSE o]

\* ----------------------------------------------------------------- views
\* A showTopics that empties the view when the listing fails.
showTopics_ClearsOnFailure(m, t) ==
    IF m.cfg.ActiveProfile = "" \/ m.cfg.ActiveProfile \notin DOMAIN m.cfg.Profiles
    THEN [m EXCEPT !.statusMsg = "No active profile set"]
    ELSE IF t.connectErr # ""
    THEN [m EXCEPT !.statusMsg = "Failed to connect: " \o t.connectErr]
    ELSE [m EXCEPT !.currentView = "topics",
                   !.content = << >>,
                   !.statusMsg = "Failed to list topics: " \o t.listErr,
                   !.scrollOffset = 0]

\* im.showTopics(), t what the collaborators answer
showTopics(m, t) ==
    IF m.cfg.ActiveProfile = "" \/ m.cfg.ActiveProfile \notin DOMAIN m.cfg.Profiles
    THEN [m EXCEPT !.statusMsg = "No active profile set"]
    ELSE IF t.connectErr # ""
    THEN [m EXCEPT !.statusMsg = "Failed to connect: " \o t.connectErr]
    ELSE IF t.listErr # ""
    THEN [m EXCEPT !.statusMsg = "Failed to list topics: " \o t.listErr]
    ELSE
    LET head == << "TOPICS", Repeat("=", 50), "" >>
        rows == [i \in 1..Len(t.Topics) |->
                    PadRight(t.Topics[i].Name, 40) \o " "
                    \o PadRight(ToString(t.Topics[i].Partitions), 10) \o " "
                    \o PadRight(ToString(t.Topics[i].ReplicationFactor), 15)]
        body == IF Len(t.Topics) = 0
                THEN << "No topics found" >>
                ELSE << PadRight("NAME", 40) \o " " \o PadRight("PARTITIONS", 10)
                          \o " " \o PadRight("REPLICATION", 15),
                        Repeat("-", 65) >> \o rows
    IN [m EXCEPT !.currentView = "topics",
                 !.content = head \o body,
                 !.statusMsg = "Showing " \o ToString(Len(t.Topics)) \o " topics",
                 !.scrollOffset = 0]

\* im.showGroups()
showGroups(m) ==
    [m EXCEPT !.currentView = "groups",
              !.content = << "Consumer Groups", "=================", "",
                             "Feature coming soon..." >>,
              !.statusMsg = "Consumer groups view",
              !.scrollOffset = 0]

\* im.showProfiles(), order the order in which the range visits cfg.Profiles
showProfiles(m, order) ==
    LET P    == m.cfg.Profiles
        head == << "PROFILES", Repeat("=", 50), "" >>
        row(name) ==
            LET active  == IF name = m.cfg.ActiveProfile THEN "*" ELSE ""
                details == IF P[name].Type = "kafka"
                           THEN "Servers: " \o P[name].BootstrapServers
                           ELSE IF P[name].Type = "msk"
                           THEN "Region: " \o P[name].Region
                           ELSE ""
            IN PadRight(name, 20) \o " " \o PadRight(P[name].Type, 10) \o " "
               \o PadRight(details, 30) \o " " \o PadRight(active, 8)
        body == IF DOMAIN P = {}
                THEN << "No profiles configured" >>
                ELSE << PadRight("NAME", 20) \o " " \o PadRight("TYPE", 10) \o " "
                          \o PadRight("DETAILS", 30) \o " " \o PadRight("ACTIVE", 8),
                        Repeat("-", 70) >>
                     \o [i \in 1..Len(order) |-> row(order[i])]
    IN [m EXCEPT !.currentView = "profiles",
                 !.content = head \o body,
                 !.statusMsg = "Showing " \o ToString(Cardinality(DOMAIN P))
                                 \o " profiles",
                 !.scrollOffset = 0]

\* A handleProfileCommand that switches without looking the name up.
handleProfileCommand_SwitchesBlindly(m, args, order) ==
    IF Len(args) > 1 /\ args[1] = "use"
    THEN [m EXCEPT !.cfg.ActiveProfile = args[2],
                   !.statusMsg = "Switched to profile: " \o args[2]]
    ELSE showProfiles(m, order)

\* im.handleProfileCommand(args)
handleProfileCommand(m, args, order) ==
    IF Len(args) = 0 THEN showProfiles(m, order)
    ELSE IF args[1] = "list" THEN showProfiles(m, order)
    ELSE IF args[1] = "use"
    THEN IF Len(args) > 1
         THEN IF args[2] \in DOMAIN m.cfg.Profiles
              THEN [m EXCEPT !.cfg.ActiveProfile = args[2],
                             !.statusMsg = "Switched to profile: " \o args[2]]
              ELSE [m EXCEPT !.statusMsg = "Profile not found: " \o args[2]]
         ELSE [m EXCEPT !.statusMsg = "Usage: profile use <name>"]
    ELSE [m EXCEPT !.statusMsg = "Unknown profile command: " \o args[1]]

\* im.refreshCurrentView()
refreshCurrentView(m, env) ==
    IF m.currentView = "topics" THEN showTopics(m, env.topics)
    ELSE IF m.currentView = "groups" THEN showGroups(m)
    ELSE IF m.currentView = "profiles" THEN showProfiles(m, env.order)
    ELSE [m EXCEPT !.statusMsg = "Nothing to refresh"]

\* im.performSearch(pattern)
performSearch(m, pattern) ==
    [m EXCEPT !.statusMsg = "Searching for: " \o pattern]

\* im.executeCommand(cmd)
executeCommand(m, cmd0, env) ==
    LET cmd   == TrimSpace(cmd0)
        parts == Fields(cmd) IN
    IF cmd = "" \/ Len(parts) = 0 THEN m
    ELSE IF parts[1] \in {"help", "h"}
    THEN [m EXCEPT !.currentView = "help", !.content = getHelpContent,
                   !.statusMsg = "Showing help", !.scrollOffset = 0]
    ELSE IF parts[1] \in {"topics", "t"} THEN showTopics(m, env.topics)
    ELSE IF parts[1] \in {"groups", "g"} THEN showGroups(m)
    ELSE IF parts[1] \in {"profile", "p"}
    THEN IF Len(parts) > 1
         THEN handleProfileCommand(m, Tail(parts), env.order)
         ELSE showProfiles(m, env.order)
    ELSE IF parts[1] \in {"refresh", "r"} THEN refreshCurrentView(m, env)
    ELSE IF parts[1] \in {"clear", "c"}
    THEN [m EXCEPT !.content = << >>, !.statusMsg = "Screen cleared",
                   !.scrollOffset = 0]
    ELSE [m EXCEPT !.statusMsg = "Unknown command: " \o parts[1]
                                   \o ". Type 'help' for available commands."]

\* ----------------------------------------------------------------- input
\* What a key handler returns: the struct as it leaves it, and quit.
Handled(m, quit) == [im |-> m, quit |-> quit]

\* im.handleNormalMode(char)
handleNormalMode(m, char, env) ==
    IF char \in {"q", KeyCtrlC} THEN Handled(m, TRUE)
    ELSE IF char = ":"
    THEN Handled([m EXCEPT !.inCommandMode = TRUE, !.currentCmd = ""], FALSE)
    ELSE IF char = "/"
    THEN Handled([m EXCEPT !.inSearchMode = TRUE, !.searchPattern = ""], FALSE)
    ELSE IF char = "j" THEN Handled(scrollDown(m), FALSE)
    ELSE IF char = "k" THEN Handled(scrollUp(m), FALSE)
    ELSE IF char = "f" THEN Handled(scrollPageDown(m), FALSE)
    ELSE IF char = "b" THEN Handled(scrollPageUp(m), FALSE)
    ELSE IF char = "g" THEN Handled(scrollToTop(m), FALSE)
    ELSE IF char = "G" THEN Handled(scrollToBottom(m), FALSE)
    ELSE IF char = "r" THEN Handled(refreshCurrentView(m, env), FALSE)
    ELSE Handled(m, FALSE)

\* A handleCommandMode whose Escape leaves the typed text in the buffer.
handleCommandMode_EscapeKeepsBuffer(m, char, env) ==
    IF char \in {KeyEnter, KeyNewline}
    THEN LET cmd == TrimSpace(m.currentCmd)
             m1  == [m EXCEPT !.inCommandMode = FALSE, !.currentCmd = ""] IN
         IF cmd \in {"q", "quit", "exit"} THEN Handled(m1, TRUE)
         ELSE IF cmd # "" THEN Handled(executeCommand(m1, cmd, env), FALSE)
         ELSE Handled(m1, FALSE)
    ELSE IF char = KeyEscape
    THEN Handled([m EXCEPT !.inCommandMode = FALSE,
                           !.statusMsg = "Command cancelled"], FALSE)
    ELSE IF char \in {KeyDelete, KeyBackspace}
    THEN Handled([m EXCEPT !.currentCmd =
                     IF Len(@) > 0 THEN SubSeq(@, 1, Len(@) - 1) ELSE @], FALSE)
    ELSE IF char = KeyCtrlU THEN Handled([m EXCEPT !.currentCmd = ""], FALSE)
    ELSE IF IsPrintable(char)
    THEN Handled([m EXCEPT !.currentCmd = @ \o char], FALSE)
    ELSE Handled(m, FALSE)

\* A handleCommandMode whose Enter reports an empty line as an unknown
\* command.
handleCommandMode_RejectsEmptyLine(m, char, env) ==
    IF char \in {KeyEnter, KeyNewline}
    THEN LET cmd == TrimSpace(m.currentCmd)
             m1  == [m EXCEPT !.inCommandMode = FALSE, !.currentCmd = ""] IN
         IF cmd \in {"q", "quit", "exit"} THEN Handled(m1, TRUE)
         ELSE IF cmd # "" THEN Handled(executeCommand(m1, cmd, env), FALSE)
         ELSE Handled([m1 EXCEPT !.statusMsg = "Unknown command: "], FALSE)
    ELSE IF char = KeyEscape
    THEN Handled([m EXCEPT !.inCommandMode = FALSE, !.currentCmd = "",
                           !.statusMsg = "Command cancelled"], FALSE)
    ELSE IF char \in {KeyDelete, KeyBackspace}
    THEN Handled([m EXCEPT !.currentCmd =
                     IF Len(@) > 0 THEN SubSeq(@, 1, Len(@) - 1) ELSE @], FALSE)
    ELSE IF char = KeyCtrlU THEN Handled([m EXCEPT !.currentCmd = ""], FALSE)
    ELSE IF IsPrintable(char)
    THEN Handled([m EXCEPT !.currentCmd = @ \o char], FALSE)
    ELSE Handled(m, FALSE)

\* im.handleCommandMode(char)
handleCommandMode(m, char, env) ==
    IF char \in {KeyEnter, KeyNewline}
    THEN LET cmd == TrimSpace(m.currentCmd)
             m1  == [m EXCEPT !.inCommandMode = FALSE, !.currentCmd = ""] IN
         IF cmd \in {"q", "quit", "exit"} THEN Handled(m1, TRUE)
         ELSE IF cmd # "" THEN Handled(executeCommand(m1, cmd, env), FALSE)
         ELSE Handled(m1, FALSE)
    ELSE IF char = KeyEscape
    THEN Handled([m EXCEPT !.inCommandMode = FALSE, !.currentCmd = "",
                           !.statusMsg = "Command cancelled"], FALSE)
    ELSE IF char \in {KeyDelete, KeyBackspace}
    THEN Handled([m EXCEPT !.currentCmd =
                     IF Len(@) > 0 THEN SubSeq(@, 1, Len(@) - 1) ELSE @], FALSE)
    ELSE IF char = KeyCtrlU THEN Handled([m EXCEPT !.currentCmd = ""], FALSE)
    ELSE IF IsPrintable(char)
    THEN Handled([m EXCEPT !.currentCmd = @ \o char], FALSE)
    ELSE Handled(m, FALSE)

\* A handleSearchMode in which q quits, as it does in Normal mode.
handleSearchMode_QuitsOnQ(m, char) ==
    IF char = "q" THEN Handled(m, TRUE)
    ELSE IF char \in {KeyEnter, KeyNewline, KeyEscape}
    THEN Handled([m EXCEPT !.inSearchMode = FALSE, !.searchPattern = ""], FALSE)
    ELSE IF IsPrintable(char)
    THEN Handled([m EXCEPT !.searchPattern = @ \o char], FALSE)
    ELSE Handled(m, FALSE)

\* im.handleSearchMode(char)
handleSearchMode(m, char) ==
    IF char \in {KeyEnter, KeyNewline}
    THEN LET pattern == m.searchPattern
             m1      == [m EXCEPT !.inSearchMode = FALSE, !.searchPattern = ""] IN
         IF pattern # "" THEN Handled(performSearch(m1, pattern), FALSE)
         ELSE Handled(m1, FALSE)
    ELSE IF char = KeyEscape
    THEN Handled([m EXCEPT !.inSearchMode = FALSE, !.searchPattern = "",
                           !.statusMsg = "Search cancelled"], FALSE)
    ELSE IF char \in {KeyDelete, KeyBackspace}
    THEN Handled([m EXCEPT !.searchPattern =
                     IF Len(@) > 0 THEN SubSeq(@, 1, Len(@) - 1) ELSE @], FALSE)
    ELSE IF IsPrintable(char)
    THEN Handled([m EXCEPT !.searchPattern = @ \o char], FALSE)
    ELSE Handled(m, FALSE)

\* A handleInput that runs the Normal-mode bindings in every mode.
handleInput_NoDispatch(m, char, env) == handleNormalMode(m, char, env)

\* im.handleInput(char)
handleInput(m, char, env) ==
    IF m.inCommandMode THEN handleCommandMode(m, char, env)
    ELSE IF m.inSearchMode THEN handleSearchMode(m, char)
    ELSE handleNormalMode(m, char, env)

\* ---------------------------------------------------------------- render
\* im.getVisibleContent()
getVisibleContent(m) ==
    LET n      == Len(m.content)
        start0 == m.scrollOffset
        end0   == start0 + m.visibleLines
        start  == IF start0 >= n
                  THEN (IF n - 1 < 0 THEN 0 ELSE n - 1)
                  ELSE start0
        end    == IF end0 > n THEN n ELSE end0 IN
    IF n = 0 THEN [panic |-> FALSE, lines |-> << "No content to display" >>]
    ELSE IF start >= end THEN GoSlice(m.content, start, start + 1)
    ELSE GoSlice(m.content, start, end)

\* im.renderStatusBar(): the status line drawn, or the panic of its slice
renderStatusBar(m) ==
    LET profile == IF m.cfg.ActiveProfile # "" THEN m.cfg.ActiveProfile ELSE "None"
        line    == "Kim - Kafka Management Tool | Profile: " \o profile
                      \o " | View: " \o m.currentView IN
    IF Len(line) > m.width - 2
    THEN LET cut == GoPrefix(line, m.width - 5) IN
         [panic |-> cut.panic, text |-> cut.text \o "..."]
    ELSE [panic |-> FALSE, text |-> line]

\* im.renderCommandLine(): the command line drawn, or the panic of its slice
renderCommandLine(m) ==
    LET line == IF m.inCommandMode THEN ":" \o m.currentCmd
                ELSE IF m.inSearchMode THEN "/" \o m.searchPattern
                ELSE "Press ':' for commands, '/' to search, 'q' to quit" IN
    IF Len(line) > m.width - 2
    THEN IF m.width > 5
         THEN LET cut == GoPrefix(line, m.width - 5) IN
              [panic |-> cut.panic, text |-> cut.text \o "..."]
         ELSE GoPrefix(line, m.width - 2)
    ELSE [panic |-> FALSE, text |-> line]

\* im.render() panics: one of the slices of the pass is out of range
renderPanics(m) ==
    \/ renderStatusBar(m).panic
    \/ getVisibleContent(m).panic
    \/ renderCommandLine(m).panic

\* The escape character that starts a control sequence.
ESC == "^["

\* renderContent: a line longer than the terminal is wide is cut
Truncate(line, width) ==
    IF Len(line) > width
    THEN IF width > 3
         THEN SubSeq(line, 1, width - 3) \o "..."
         ELSE SubSeq(line, 1, width)
    ELSE line

\* im.renderContent(): the lines printed, or the panic of getVisibleContent
renderContent(m) ==
    LET visibleContent == getVisibleContent(m)
        availableLines == IF m.height - 4 < 1 THEN 1 ELSE m.height - 4
        n     == Len(visibleContent.lines)
        shown == IF n > availableLines THEN availableLines ELSE n IN
    [panic |-> visibleContent.panic,
     lines |-> [i \in 1..availableLines |->
                   IF i <= shown
                   THEN Truncate(visibleContent.lines[i], m.width) \o "\n"
                   ELSE "\n"]]

\* im.render(): what the pass writes to the terminal, one element per
\* print, up to the print a panic keeps from happening.
renderOutput(m) ==
    LET sb == renderStatusBar(m)
        ct == renderContent(m)
        cl == renderCommandLine(m)
        clear   == << ESC \o "[2J" \o ESC \o "[H" >>
        status  == << ESC \o "[1;37;44m" \o PadRight(sb.text, m.width)
                          \o ESC \o "[0m\n",
                      "\n" >>
        command == << ESC \o "[" \o ToString(m.height) \o ";1H" \o ESC \o "[1;37;40m"
                          \o PadRight(cl.text, m.width) \o ESC \o "[0m" >> IN
    IF sb.panic THEN clear
    ELSE IF ct.panic THEN clear \o status
    ELSE IF cl.panic THEN clear \o status \o ct.lines
    ELSE clear \o status \o ct.lines \o command

\* im.render() that also pulls scrollOffset back into the content.
render_ClampsOffset(m) ==
    [im |-> [m EXCEPT !.scrollOffset =
                         IF @ < 0 THEN 0
                         ELSE IF @ > Len(m.content) THEN Len(m.content) ELSE @],
     panic |-> FALSE]

\* im.render(): the struct after the pass, and whether the pass ended in a
\* panic.  The pass assigns no field.
render(m) == [im |-> m, panic |-> renderPanics(m)]

\* ------------------------------------------------------------------- state
VARIABLES
    connected,       \* client.connected
    consumers,       \* mm.consumers: key string -> session
    nextId,          \* the next session to allocate
    session,         \* per session: Topic, GroupID, Partition, FromBeginning, Offset
    Messages,        \* per session: buffered content of session.Messages
    MessagesClosed,  \* per session: number of close(session.Messages)
    Errors,          \* per session: number of errors buffered in session.Errors
    ErrorsClosed,    \* per session: number of close(session.Errors)
    Stop,            \* per session: number of close(session.Stop)
    ConsumerClosed,  \* per session: number of session.Consumer.Close()
    upMsgs,          \* per session: messages received from Consumer.Messages()
    upErrs,          \* per session: errors received from Consumer.Errors()
    pc,              \* per session: where its pump goroutine stands
    sent,            \* history: per session, every offset sent on session.Messages
    sentOnClosed,    \* history: a send on a closed channel happened
    ret,             \* the return of the last registry call
    im,              \* the InteractiveMode struct (im.cfg: the config it points to)
    uiPc,            \* where InteractiveMode.Run stands
    termios,         \* the mode of the terminal on os.Stdin
    oldState,        \* Run's oldState: what term.MakeRaw returned
    termBefore,      \* history: the mode of the terminal when Run was called
    token,           \* MSKTokenProvider.token
    expiresAt,       \* MSKTokenProvider.expiresAt, in minutes
    now,             \* time.Now(), in minutes
    tokenRet,        \* what the last MSKTokenProvider.Token call did and returned
    timerFired,      \* consume command: time.After(timeout) has sent on timeoutChan
    consumeClosed,   \* consume command: it has returned on "Consumer closed"
    gtm              \* the GetTopicMessages call: its locals, its channels, its return

vars == <<connected, consumers, nextId, session, Messages, MessagesClosed, Errors,
          ErrorsClosed, Stop, ConsumerClosed, upMsgs, upErrs, pc, sent,
          sentOnClosed, ret, im, uiPc, termios, oldState, termBefore,
          token, expiresAt, now, tokenRet, timerFired, consumeClosed, gtm>>

chanVars == <<Messages, MessagesClosed, Errors, ErrorsClosed, sent, sentOnClosed>>
upVars   == <<upMsgs, upErrs, ConsumerClosed>>
uiVars   == <<im, uiPc, termios, oldState, termBefore>>
authVars == <<token, expiresAt, now, tokenRet>>
cmdVars  == <<timerFired, consumeClosed>>
getVars  == <<gtm>>

managerVars == <<connected, consumers, nextId, session, chanVars, Stop, upVars,
                 pc, ret>>

\* What the steps of Run leave alone.
outsideUi == <<managerVars, authVars, cmdVars, getVars>>

\* What the actions of the manager leave alone.
outsideManager == <<uiVars, authVars, cmdVars, getVars>>

NoKey == [Topic |-> "", GroupID |-> "", Partition |-> -1]

NoRet == [op |-> "none", key |-> NoKey, sess |-> 0, err |-> "", opened |-> FALSE,
          stopped |-> {}]

NoTokenRet == [tok |-> "nil", err |-> "", generated |-> FALSE, had |-> ""]

\* NewMSKTokenProvider(region): no token, the zero expiry; and the consume
\* command not yet run.
\* No GetTopicMessages call has been made.
NoGet ==
    [pc |-> "idle", maxMessages |-> 0, messageCount |-> 0, timeout |-> "none",
     upstream |-> "none", handleClosed |-> 0, ctxDone |-> FALSE, last |-> "",
     ret |-> ""]

AuthInit ==
    /\ gtm = NoGet
    /\ token = ""
    /\ expiresAt = 0
    /\ now = 1
    /\ tokenRet = NoTokenRet
    /\ timerFired = FALSE
    /\ consumeClosed = FALSE

\* The manager as NewMessageManager leaves it, on a connected client.
ManagerInit ==
    /\ connected = TRUE
    /\ consumers = [k \in {} |-> 0]
    /\ nextId = 1
    /\ session = [s \in Sessions |-> NoSession]
    /\ Messages = [s \in Sessions |-> <<>>]
    /\ MessagesClosed = [s \in Sessions |-> 0]
    /\ Errors = [s \in Sessions |-> 0]
    /\ ErrorsClosed = [s \in Sessions |-> 0]
    /\ Stop = [s \in Sessions |-> 0]
    /\ ConsumerClosed = [s \in Sessions |-> 0]
    /\ upMsgs = [s \in Sessions |-> 0]
    /\ upErrs = [s \in Sessions |-> 0]
    /\ pc = [s \in Sessions |-> "none"]
    /\ sent = [s \in Sessions |-> <<>>]
    /\ sentOnClosed = FALSE
    /\ ret = NoRet

\* The consume command runs the manager without the interactive mode.
Init ==
    /\ ManagerInit
    /\ im = NewInteractiveMode([ActiveProfile |-> "", Profiles |-> Profiles], <<0, 0>>)
    /\ uiPc = "start"
    /\ termios = "cooked"
    /\ oldState = "nil"
    /\ termBefore = termios
    /\ AuthInit

\* ----------------------------------------------------------------- helpers
Created(s) == s < nextId

\* delete(mm.consumers, key)
Delete(m, key) == [k \in DOMAIN m \ {key} |-> m[k]]

SessionKeyOf(s) == sessionKey(session[s].Topic, session[s].GroupID, session[s].Partition)

RECURSIVE Sum(_, _)
Sum(f, S) == IF S = {} THEN 0
             ELSE LET x == CHOOSE y \in S : TRUE IN f[x] + Sum(f, S \ {x})

\* The inputs the run has taken so far.
Events == (nextId - 1) + Sum(upMsgs, Sessions) + Sum(upErrs, Sessions)

\* The pump is in its for/select loop.
InLoop(s) == pc[s] \in {"select", "sendMsg", "sendErr"}

\* ------------------------------------------------------------------ client
\* client.Close().  The manager is built on a client GetClient has connected;
\* nothing reconnects a closed client (GetClient makes a new one).
Disconnect ==
    /\ connected
    /\ connected' = FALSE
    /\ UNCHANGED <<consumers, nextId, session, chanVars, Stop, upVars, pc, ret, outsideManager>>

\* ---------------------------------------------------------------- registry
\* The return value of a registry call; stopped: the sessions whose stop channel
\* a StopAllConsumers closed.
Ret(op, key, s, err, opened) ==
    [op |-> op, key |-> key, sess |-> s, err |-> err, opened |-> opened,
     stopped |-> {}]

\* The session a StartConsumer creates (the ConsumerSession literal and the
\* offset handed to ConsumePartition).
NewSession(req) ==
    [Topic |-> req.Topic, GroupID |-> req.GroupID, Partition |-> req.Partition,
     FromBeginning |-> req.FromBeginning,
     Offset |-> IF req.FromBeginning THEN OffsetOldest ELSE OffsetNewest]

\* A StartConsumer that registers the session before ConsumePartition and
\* leaves it registered when ConsumePartition fails.
StartLocked_RegistersFirst(req) ==
    LET key == sessionKey(req.Topic, req.GroupID, req.Partition) IN
    IF key \in DOMAIN consumers
    THEN /\ ret' = Ret("start", KeyOf(req), consumers[key], "", FALSE)
         /\ UNCHANGED <<connected, consumers, nextId, session, chanVars, Stop,
                        upVars, pc, outsideManager>>
    ELSE /\ Events < MaxEvents
         /\ session' = [session EXCEPT ![nextId] = NewSession(req)]
         /\ consumers' = consumers @@ (key :> nextId)
         /\ nextId' = nextId + 1
         /\ \/ /\ ret' = Ret("start", KeyOf(req), 0,
                             "failed to create partition consumer", TRUE)
               /\ UNCHANGED pc
            \/ /\ pc' = [pc EXCEPT ![nextId] = "select"]
               /\ ret' = Ret("start", KeyOf(req), nextId, "", TRUE)
         /\ UNCHANGED <<connected, chanVars, Stop, upVars, outsideManager>>

\* mm.StartConsumer under mm.mutex: the existing session of the key, or a new
\* one.  ConsumePartition is the broker's: it fails or succeeds as the broker
\* decides.
StartLocked(req) ==
    LET key == sessionKey(req.Topic, req.GroupID, req.Partition) IN
    IF key \in DOMAIN consumers
    THEN /\ ret' = Ret("start", KeyOf(req), consumers[key], "", FALSE)
         /\ UNCHANGED <<connected, consumers, nextId, session, chanVars, Stop,
                        upVars, pc, outsideManager>>
    ELSE \/ /\ ret' = Ret("start", KeyOf(req), 0,
                          "failed to create partition consumer", TRUE)
            /\ UNCHANGED <<connected, consumers, nextId, session, chanVars, Stop,
                           upVars, pc, outsideManager>>
         \/ /\ Events < MaxEvents
            /\ session' = [session EXCEPT ![nextId] = NewSession(req)]
            /\ consumers' = consumers @@ (key :> nextId)
            /\ pc' = [pc EXCEPT ![nextId] = "select"]
            /\ nextId' = nextId + 1
            /\ ret' = Ret("start", KeyOf(req), nextId, "", TRUE)
            /\ UNCHANGED <<connected, chanVars, Stop, upVars, outsideManager>>

\* A StartConsumer without the IsConnected check.
StartConsumer_NoConnectedCheck(req) == StartLocked(req)

\* mm.StartConsumer(ctx, req)
StartConsumer(req) ==
    IF ~connected
    THEN /\ ret' = Ret("start", KeyOf(req), 0, "client not connected", FALSE)
         /\ UNCHANGED <<connected, consumers, nextId, session, chanVars, Stop,
                        upVars, pc, outsideManager>>
    ELSE StartLocked(req)

\* A StopConsumer that fires the stop signal and leaves the entry in the map.
StopConsumer_KeepsEntry(topic, groupID, partition) ==
    LET key == sessionKey(topic, groupID, partition)
        k   == [Topic |-> topic, GroupID |-> groupID, Partition |-> partition] IN
    IF key \notin DOMAIN consumers
    THEN /\ ret' = Ret("stop", k, 0, "consumer not found", FALSE)
         /\ UNCHANGED <<connected, consumers, nextId, session, chanVars, Stop,
                        upVars, pc, outsideManager>>
    ELSE /\ Stop' = [Stop EXCEPT ![consumers[key]] = @ + 1]
         /\ ret' = Ret("stop", k, consumers[key], "", FALSE)
         /\ UNCHANGED <<connected, consumers, nextId, session, chanVars, upVars, pc,
                        outsideManager>>

\* A StopConsumer that closes the output channels itself, as well as the pump.
StopConsumer_ClosesOutputs(topic, groupID, partition) ==
    LET key == sessionKey(topic, groupID, partition)
        k   == [Topic |-> topic, GroupID |-> groupID, Partition |-> partition] IN
    IF key \notin DOMAIN consumers
    THEN /\ ret' = Ret("stop", k, 0, "consumer not found", FALSE)
         /\ UNCHANGED <<connected, consumers, nextId, session, chanVars, Stop,
                        upVars, pc, outsideManager>>
    ELSE /\ Stop' = [Stop EXCEPT ![consumers[key]] = @ + 1]
         /\ MessagesClosed' = [MessagesClosed EXCEPT ![consumers[key]] = @ + 1]
         /\ ErrorsClosed' = [ErrorsClosed EXCEPT ![consumers[key]] = @ + 1]
         /\ consumers' = Delete(consumers, key)
         /\ ret' = Ret("stop", k, consumers[key], "", FALSE)
         /\ UNCHANGED <<connected, nextId, session, Messages, Errors, sent,
                        sentOnClosed, upVars, pc, outsideManager>>

\* mm.StopConsumer(topic, groupID, partition)
StopConsumer(topic, groupID, partition) ==
    LET key == sessionKey(topic, groupID, partition)
        k   == [Topic |-> topic, GroupID |-> groupID, Partition |-> partition] IN
    IF key \notin DOMAIN consumers
    THEN /\ ret' = Ret("stop", k, 0, "consumer not found", FALSE)
         /\ UNCHANGED <<connected, consumers, nextId, session, chanVars, Stop,
                        upVars, pc, outsideManager>>
    ELSE /\ Stop' = [Stop EXCEPT ![consumers[key]] = @ + 1]
         /\ consumers' = Delete(consumers, key)
         /\ ret' = Ret("stop", k, consumers[key], "", FALSE)
         /\ UNCHANGED <<connected, nextId, session, chanVars, upVars, pc, outsideManager>>

\* A StopAllConsumers that empties the map and closes no stop channel.
StopAllConsumers_ClearsOnly ==
    /\ consumers' = [k \in {} |-> 0]
    /\ ret' = [Ret("stopAll", NoKey, 0, "", FALSE)
                  EXCEPT !.stopped = { consumers[k] : k \in DOMAIN consumers }]
    /\ UNCHANGED <<connected, nextId, session, chanVars, Stop, upVars, pc, outsideManager>>

\* A StopAllConsumers that closes every stop channel and leaves the map as
\* it is.
StopAllConsumers_KeepsEntries ==
    LET live == { consumers[k] : k \in DOMAIN consumers } IN
    /\ Stop' = [s \in Sessions |-> IF s \in live THEN Stop[s] + 1 ELSE Stop[s]]
    /\ ret' = [Ret("stopAll", NoKey, 0, "", FALSE) EXCEPT !.stopped = live]
    /\ UNCHANGED <<connected, consumers, nextId, session, chanVars, upVars, pc,
                   outsideManager>>

\* mm.StopAllConsumers()
StopAllConsumers ==
    LET live == { consumers[k] : k \in DOMAIN consumers } IN
    /\ Stop' = [s \in Sessions |-> IF s \in live THEN Stop[s] + 1 ELSE Stop[s]]
    /\ consumers' = [k \in {} |-> 0]
    /\ ret' = [Ret("stopAll", NoKey, 0, "", FALSE) EXCEPT !.stopped = live]
    /\ UNCHANGED <<connected, nextId, session, chanVars, upVars, pc, outsideManager>>

\* mm.GetActiveConsumers(): the descriptors of the registered sessions.
GetActiveConsumers ==
    { [Topic |-> session[consumers[k]].Topic,
       Partition |-> session[consumers[k]].Partition,
       GroupID |-> session[consumers[k]].GroupID,
       FromBeginning |-> session[consumers[k]].FromBeginning] : k \in DOMAIN consumers }

\* -------------------------------------------------------------------- pump
\* mm.consumeMessages(session): the goroutine StartConsumer launches.
\* pc: "select" the outer select; "sendMsg" / "sendErr" the inner selects;
\* "close" and "deregister" the deferred statements in order; "done" the
\* goroutine has returned.

pumpFrame == <<connected, consumers, nextId, session, Stop, ret, outsideManager>>

\* case msg := <-session.Consumer.Messages(), msg != nil: the message is
\* converted and the pump goes to the inner select.
PumpRecvMessage(s) ==
    /\ pc[s] = "select"
    /\ Events < MaxEvents
    /\ upMsgs' = [upMsgs EXCEPT ![s] = @ + 1]
    /\ pc' = [pc EXCEPT ![s] = "sendMsg"]
    /\ UNCHANGED <<pumpFrame, chanVars, upErrs, ConsumerClosed>>

\* case msg := <-session.Consumer.Messages(), msg == nil (stream closed): return
PumpMessagesClosed(s) ==
    /\ pc[s] = "select"
    /\ pc' = [pc EXCEPT ![s] = "close"]
    /\ UNCHANGED <<pumpFrame, chanVars, upVars>>

\* A send that drops the message when the buffer is full (select with default).
PumpSendMessage_DropsWhenFull(s) ==
    /\ pc[s] = "sendMsg"
    /\ IF Len(Messages[s]) < MsgCap
       THEN /\ Messages' = [Messages EXCEPT ![s] = Append(@, upMsgs[s])]
            /\ sent' = [sent EXCEPT ![s] = Append(@, upMsgs[s])]
       ELSE UNCHANGED <<Messages, sent>>
    /\ pc' = [pc EXCEPT ![s] = "select"]
    /\ UNCHANGED <<pumpFrame, MessagesClosed, Errors, ErrorsClosed, sentOnClosed, upVars>>

\* case session.Messages <- message: needs room in the buffer; a send on a
\* closed channel panics.
PumpSendMessage(s) ==
    /\ pc[s] = "sendMsg"
    /\ \/ MessagesClosed[s] > 0
       \/ Len(Messages[s]) < MsgCap
    /\ IF MessagesClosed[s] > 0
       THEN /\ sentOnClosed' = TRUE
            /\ UNCHANGED <<Messages, sent>>
       ELSE /\ Messages' = [Messages EXCEPT ![s] = Append(@, upMsgs[s])]
            /\ sent' = [sent EXCEPT ![s] = Append(@, upMsgs[s])]
            /\ UNCHANGED sentOnClosed
    /\ pc' = [pc EXCEPT ![s] = "select"]
    /\ UNCHANGED <<pumpFrame, MessagesClosed, Errors, ErrorsClosed, upVars>>

\* An inner select without the stop case: a plain send.
PumpSendMessageStop_NoStopCase(s) ==
    /\ FALSE
    /\ UNCHANGED vars

\* case <-session.Stop (inner select of the message case): return
PumpSendMessageStop(s) ==
    /\ pc[s] = "sendMsg"
    /\ Stop[s] > 0
    /\ pc' = [pc EXCEPT ![s] = "close"]
    /\ UNCHANGED <<pumpFrame, chanVars, upVars>>

\* case err := <-session.Consumer.Errors(), err != nil
PumpRecvError(s) ==
    /\ pc[s] = "select"
    /\ Events < MaxEvents
    /\ upErrs' = [upErrs EXCEPT ![s] = @ + 1]
    /\ pc' = [pc EXCEPT ![s] = "sendErr"]
    /\ UNCHANGED <<pumpFrame, chanVars, upMsgs, ConsumerClosed>>

\* case err := <-session.Consumer.Errors(), err == nil (stream closed): return
PumpErrorsClosed(s) ==
    /\ pc[s] = "select"
    /\ pc' = [pc EXCEPT ![s] = "close"]
    /\ UNCHANGED <<pumpFrame, chanVars, upVars>>

\* A pump that returns once it has forwarded the error.
PumpSendError_ThenReturns(s) ==
    /\ pc[s] = "sendErr"
    /\ Errors[s] < ErrCap
    /\ Errors' = [Errors EXCEPT ![s] = @ + 1]
    /\ pc' = [pc EXCEPT ![s] = "close"]
    /\ UNCHANGED <<pumpFrame, Messages, MessagesClosed, ErrorsClosed, sent,
                   sentOnClosed, upVars>>

\* case session.Errors <- err
PumpSendError(s) ==
    /\ pc[s] = "sendErr"
    /\ \/ ErrorsClosed[s] > 0
       \/ Errors[s] < ErrCap
    /\ IF ErrorsClosed[s] > 0
       THEN /\ sentOnClosed' = TRUE
            /\ UNCHANGED Errors
       ELSE /\ Errors' = [Errors EXCEPT ![s] = @ + 1]
            /\ UNCHANGED sentOnClosed
    /\ pc' = [pc EXCEPT ![s] = "select"]
    /\ UNCHANGED <<pumpFrame, Messages, MessagesClosed, ErrorsClosed, sent, upVars>>

\* case <-session.Stop (inner select of the error case): return
PumpSendErrorStop(s) ==
    /\ pc[s] = "sendErr"
    /\ Stop[s] > 0
    /\ pc' = [pc EXCEPT ![s] = "close"]
    /\ UNCHANGED <<pumpFrame, chanVars, upVars>>

\* case <-session.Stop (outer select): return
PumpStop(s) ==
    /\ pc[s] = "select"
    /\ Stop[s] > 0
    /\ pc' = [pc EXCEPT ![s] = "close"]
    /\ UNCHANGED <<pumpFrame, chanVars, upVars>>

\* The deferred closes without session.Consumer.Close().
PumpClose_LeavesHandleOpen(s) ==
    /\ pc[s] = "close"
    /\ MessagesClosed' = [MessagesClosed EXCEPT ![s] = @ + 1]
    /\ ErrorsClosed' = [ErrorsClosed EXCEPT ![s] = @ + 1]
    /\ pc' = [pc EXCEPT ![s] = "deregister"]
    /\ UNCHANGED <<pumpFrame, Messages, Errors, sent, sentOnClosed, upVars>>

\* defer: close(session.Messages); close(session.Errors);
\* session.Consumer.Close().  Three statements on objects of the session
\* alone that cannot block: one step.
PumpClose(s) ==
    /\ pc[s] = "close"
    /\ MessagesClosed' = [MessagesClosed EXCEPT ![s] = @ + 1]
    /\ ErrorsClosed' = [ErrorsClosed EXCEPT ![s] = @ + 1]
    /\ ConsumerClosed' = [ConsumerClosed EXCEPT ![s] = @ + 1]
    /\ pc' = [pc EXCEPT ![s] = "deregister"]
    /\ UNCHANGED <<pumpFrame, Messages, Errors, sent, sentOnClosed, upMsgs, upErrs>>

\* defer: mm.mutex.Lock(); delete(mm.consumers, sessionKey); mm.mutex.Unlock()
PumpDeregister(s) ==
    /\ pc[s] = "deregister"
    /\ consumers' = Delete(consumers, SessionKeyOf(s))
    /\ pc' = [pc EXCEPT ![s] = "done"]
    /\ UNCHANGED <<connected, nextId, session, Stop, ret, chanVars, upVars, outsideManager>>

\* ----------------------------------------------------------------- readers
\* A caller receives from the message channel StartConsumer gave it.
ReadMessage(s) ==
    /\ Created(s)
    /\ Messages[s] # <<>>
    /\ Messages' = [Messages EXCEPT ![s] = Tail(@)]
    /\ UNCHANGED <<pumpFrame, MessagesClosed, Errors, ErrorsClosed, sent,
                   sentOnClosed, upVars, pc>>

\* A caller receives from the error channel StartConsumer gave it.
ReadError(s) ==
    /\ Created(s)
    /\ Errors[s] > 0
    /\ Errors' = [Errors EXCEPT ![s] = @ - 1]
    /\ UNCHANGED <<pumpFrame, Messages, MessagesClosed, ErrorsClosed, sent,
                   sentOnClosed, upVars, pc>>

\* ----------------------------------------------------------- specification
Pump(s) ==
    \/ PumpRecvMessage(s)
    \/ PumpMessagesClosed(s)
    \/ PumpSendMessage(s)
    \/ PumpSendMessageStop(s)
    \/ PumpRecvError(s)
    \/ PumpErrorsClosed(s)
    \/ PumpSendError(s)
    \/ PumpSendErrorStop(s)
    \/ PumpStop(s)
    \/ PumpClose(s)
    \/ PumpDeregister(s)

NextOver(R) ==
    \/ Disconnect
    \/ \E req \in R : StartConsumer(req)
    \/ \E req \in R : StopConsumer(req.Topic, req.GroupID, req.Partition)
    \/ StopAllConsumers
    \/ \E s \in Sessions : Pump(s)
    \/ \E s \in Sessions : ReadMessage(s)
    \/ \E s \in Sessions : ReadError(s)

Next == NextOver(Requests)

Spec == Init /\ [][Next]_vars

NextInvalid == NextOver(InvalidRequests)

SpecInvalid == Init /\ [][NextInvalid]_vars

\* ---------------------------------------------------------- consume command
\* kim message consume a-b --group-id g --from-beginning --timeout T, with
\* T > 0 and no --max-messages, in a run that no signal interrupts.  The
\* command is the only caller of its manager, so ret is the return of its
\* own last call; it returns together with its StopConsumer call.
ConsumeRequest ==
    [Topic |-> "a-b", GroupID |-> "g", Partition |-> 0, FromBeginning |-> TRUE]

\* The command is in its for-select loop.
ConsumeInLoop == ret.op = "start" /\ ret.err = "" /\ ~consumeClosed

\* RunE has returned.
ConsumeReturned ==
    \/ ret.op = "start" /\ ret.err # ""
    \/ ret.op = "stop"
    \/ consumeClosed

\* messageManager.StartConsumer(context.Background(), req)
ConsumeStart ==
    /\ ret.op = "none"
    /\ StartConsumer(ConsumeRequest)

\* case message := <-messages, message != nil: display it
ConsumeMessage ==
    /\ ConsumeInLoop
    /\ ReadMessage(ret.sess)

\* case message := <-messages, message == nil (channel closed): return nil
ConsumeClosed ==
    /\ ConsumeInLoop
    /\ Messages[ret.sess] = << >>
    /\ MessagesClosed[ret.sess] > 0
    /\ consumeClosed' = TRUE
    /\ UNCHANGED <<managerVars, uiVars, authVars, getVars, timerFired>>

\* case err := <-errors, err != nil: log it
ConsumeError ==
    /\ ConsumeInLoop
    /\ ReadError(ret.sess)

\* The timer of time.After(timeout) expires.
TimerExpires ==
    /\ ConsumeInLoop
    /\ ~timerFired
    /\ timerFired' = TRUE
    /\ UNCHANGED <<managerVars, uiVars, authVars, getVars, consumeClosed>>

\* A timeout case that returns without calling StopConsumer.
ConsumeTimeout_ReturnsOnly ==
    /\ ConsumeInLoop
    /\ timerFired
    /\ consumeClosed' = TRUE
    /\ UNCHANGED <<managerVars, uiVars, authVars, getVars, timerFired>>

\* case <-timeoutChan: return messageManager.StopConsumer(topic, groupID,
\* partition)
ConsumeTimeout ==
    /\ ConsumeInLoop
    /\ timerFired
    /\ StopConsumer(ConsumeRequest.Topic, ConsumeRequest.GroupID,
                    ConsumeRequest.Partition)

NextConsume ==
    \/ ConsumeStart
    \/ ConsumeMessage
    \/ ConsumeClosed
    \/ ConsumeError
    \/ TimerExpires
    \/ ConsumeTimeout
    \/ \E s \in Sessions : Pump(s)

\* ------------------------------------------------------ MSK token provider
\* Times are in minutes.
TokenValidity == 15     \* p.expiresAt = time.Now().Add(15 * time.Minute)
RefreshBuffer == 1      \* p.expiresAt.Add(-time.Minute)

Region == "us-east-1"

\* What the actions of the token provider leave alone.
outsideAuth == <<managerVars, uiVars, cmdVars, getVars>>

\* p.generateToken(): the token made at time t
generateToken(t) == "msk-token-" \o Region \o "-" \o ToString(t)

\* p.Token() that serves the cached token up to its expiry.
Token_NoBuffer(ok) ==
    /\ IF token # "" /\ now < expiresAt
       THEN /\ tokenRet' = [tok |-> token, err |-> "", generated |-> FALSE,
                            had |-> token]
            /\ UNCHANGED <<token, expiresAt>>
       ELSE /\ tokenRet' = [tok |-> generateToken(now), err |-> "", generated |-> TRUE,
                            had |-> token]
            /\ token' = generateToken(now)
            /\ expiresAt' = now + TokenValidity
    /\ UNCHANGED <<now, outsideAuth>>

\* p.Token(), under p.mutex; ok: config.LoadDefaultConfig succeeds in
\* generateToken
Token(ok) ==
    /\ IF token # "" /\ now < expiresAt - RefreshBuffer
       THEN /\ tokenRet' = [tok |-> token, err |-> "", generated |-> FALSE,
                            had |-> token]
            /\ UNCHANGED <<token, expiresAt>>
       ELSE IF ~ok
       THEN /\ tokenRet' = [tok |-> "nil", err |-> "failed to generate MSK token",
                            generated |-> TRUE, had |-> token]
            /\ UNCHANGED <<token, expiresAt>>
       ELSE /\ tokenRet' = [tok |-> generateToken(now), err |-> "", generated |-> TRUE,
                            had |-> token]
            /\ token' = generateToken(now)
            /\ expiresAt' = now + TokenValidity
    /\ UNCHANGED <<now, outsideAuth>>

\* Time passes.
Tick ==
    /\ now < MaxClock
    /\ now' = now + 1
    /\ UNCHANGED <<token, expiresAt, tokenRet, outsideAuth>>

NextToken == Tick \/ \E ok \in BOOLEAN : Token(ok)

TokenSpec == Init /\ [][NextToken]_vars

\* -------------------------------------------------------- GetTopicMessages
\* gtm.pc: "idle" before the call, "loop" at the select of the collecting
\* loop, "returned".  gtm.timeout: the channel of time.After(5 * time.Second),
\* "armed" until the five seconds have passed, "fired" while it holds its
\* one value, "taken" once that value has been received.  gtm.upstream: the
\* partition consumer's Messages() and Errors() channels, which the client
\* library closes together.  gtm.last: the case the loop took last.
DefaultLimit == 100
MaxFetched   == 2
Limits       == {0, 1, 2}

GetRequests ==
    [Topic : {"a"}, Partition : {0}, FromBeginning : BOOLEAN, Limit : Limits]

outsideGet == <<managerVars, uiVars, authVars, cmdVars>>

\* A return of GetTopicMessages after ConsumePartition succeeded: the
\* deferred partitionConsumer.Close() runs.
GetReturn(g, r) ==
    [g EXCEPT !.pc = "returned", !.ret = r, !.handleClosed = @ + 1,
              !.upstream = "closed"]

\* mm.GetTopicMessages(ctx, req) up to its loop.  ConsumePartition is the
\* broker's: it fails or succeeds as the broker decides.
GetTopicMessages(req) ==
    /\ gtm.pc = "idle"
    /\ IF ~connected
       THEN gtm' = [gtm EXCEPT !.pc = "returned", !.ret = "client not connected"]
       ELSE \/ gtm' = [gtm EXCEPT !.pc = "returned",
                                  !.ret = "failed to create partition consumer"]
            \/ LET maxMessages == IF req.Limit = 0 THEN DefaultLimit ELSE req.Limit
                    g == [gtm EXCEPT !.maxMessages = maxMessages,
                                     !.timeout = "armed", !.upstream = "open"] IN
               gtm' = IF 0 < maxMessages
                      THEN [g EXCEPT !.pc = "loop"]
                      ELSE GetReturn(g, "list")
    /\ UNCHANGED outsideGet

\* case msg := <-partitionConsumer.Messages(), a message of the broker:
\* append it; the loop ends when messageCount reaches maxMessages.
GetMessage ==
    /\ gtm.pc = "loop"
    /\ gtm.upstream = "open"
    /\ gtm.messageCount < MaxFetched
    /\ LET g == [gtm EXCEPT !.messageCount = @ + 1, !.last = "message"] IN
       gtm' = IF g.messageCount < g.maxMessages THEN g ELSE GetReturn(g, "list")
    /\ UNCHANGED outsideGet

\* case msg := <-partitionConsumer.Messages() on the closed channel:
\* msg == nil, break leaves the select and the loop goes on.
GetMessageNil ==
    /\ gtm.pc = "loop"
    /\ gtm.upstream = "closed"
    /\ gtm' = [gtm EXCEPT !.last = "nil message"]
    /\ UNCHANGED outsideGet

\* case err := <-partitionConsumer.Errors(), err != nil: return the error
GetError ==
    /\ gtm.pc = "loop"
    /\ gtm.upstream = "open"
    /\ gtm' = GetReturn([gtm EXCEPT !.last = "error"], "consumer error")
    /\ UNCHANGED outsideGet

\* case err := <-partitionConsumer.Errors() on the closed channel: err == nil,
\* the loop goes on.
GetErrorNil ==
    /\ gtm.pc = "loop"
    /\ gtm.upstream = "closed"
    /\ gtm' = [gtm EXCEPT !.last = "nil error"]
    /\ UNCHANGED outsideGet

\* case <-timeout: break leaves the select and the loop goes on.
GetTimeout ==
    /\ gtm.pc = "loop"
    /\ gtm.timeout = "fired"
    /\ gtm' = [gtm EXCEPT !.timeout = "taken", !.last = "timeout"]
    /\ UNCHANGED outsideGet

\* case <-ctx.Done(): return nil, ctx.Err()
GetCtxDone ==
    /\ gtm.pc = "loop"
    /\ gtm.ctxDone
    /\ gtm' = GetReturn([gtm EXCEPT !.last = "ctx"], "context canceled")
    /\ UNCHANGED outsideGet

\* The five seconds of time.After pass.
GetTimerFires ==
    /\ gtm.timeout = "armed"
    /\ gtm' = [gtm EXCEPT !.timeout = "fired"]
    /\ UNCHANGED outsideGet

\* The partition consumer's stream ends: its channels are closed.
GetUpstreamCloses ==
    /\ gtm.pc = "loop"
    /\ gtm.upstream = "open"
    /\ gtm' = [gtm EXCEPT !.upstream = "closed"]
    /\ UNCHANGED outsideGet

\* The caller cancels ctx.
GetCancel ==
    /\ gtm.pc = "loop"
    /\ ~gtm.ctxDone
    /\ gtm' = [gtm EXCEPT !.ctxDone = TRUE]
    /\ UNCHANGED outsideGet

\* The steps of the function itself.
GetStep ==
    \/ GetMessageNil
    \/ GetErrorNil
    \/ GetTimeout
    \/ GetCtxDone

NextGet ==
    \/ Disconnect
    \/ \E req \in GetRequests : GetTopicMessages(req)
    \/ GetMessage
    \/ GetError
    \/ GetUpstreamCloses
    \/ GetCancel
    \/ GetTimerFires
    \/ GetStep

\* The timer runs and the goroutine of the call is scheduled; the broker
\* and the caller owe nothing.
GetSpec ==
    /\ Init
    /\ [][NextGet]_vars
    /\ WF_vars(GetTimerFires)
    /\ WF_vars(GetStep)

\* -------------------------------------------------- interactive mode: Run
\* The command lines the user types in the runs that scroll and resize.
ScrollCommandLines == { "h", "g", "c", "q/" }

\* The command lines the user types in the runs of the command dispatcher.
CommandLines ==
    { "h", "t", "g", "c", "r", "p", "p use dev", "p use x", "q x", " " }

\* The patterns the user types in Search mode.
SearchPatterns == { "com", ":q" }

\* The terminal of the runs of the command dispatcher keeps its size.
SteadySizes == { <<80, 10>> }

RECURSIVE Prefixes(_)
Prefixes(s) == IF s = "" THEN {""} ELSE {s} \cup Prefixes(SubSeq(s, 1, Len(s) - 1))

\* What a buffer can hold on the way to one of the lines.
ScrollCommandPrefixes == UNION { Prefixes(c) : c \in ScrollCommandLines }
CommandPrefixes       == UNION { Prefixes(c) : c \in CommandLines }
SearchPrefixes        == UNION { Prefixes(c) : c \in SearchPatterns }

RECURSIVE CharsOf(_)
CharsOf(s) == IF s = "" THEN {} ELSE {Head(s)} \cup CharsOf(Tail(s))

\* The runes the user sends in Normal mode: the bound keys, an unbound
\* letter, the control keys.
NormalRunes ==
    {"q", ":", "/", "j", "k", "f", "b", "g", "G", "r", "x",
     KeyEnter, KeyEscape, KeyDelete, KeyCtrlU, KeyCtrlC, KeyCtrlA}

\* The runes the terminal sends.
Runes ==
    NormalRunes \cup {KeyNewline, KeyBackspace}
    \cup UNION { CharsOf(c) : c \in CommandLines \cup SearchPatterns }

\* The user types towards one of the command lines, or one of the patterns.
Typed(char, cmdPrefixes, patPrefixes) ==
    IF im.inCommandMode
    THEN \/ ~IsPrintable(char)
         \/ im.currentCmd \o char \in cmdPrefixes
    ELSE IF im.inSearchMode
    THEN \/ ~IsPrintable(char)
         \/ im.searchPattern \o char \in patPrefixes
    ELSE char \in NormalRunes

\* The answers that matter to the key: the collaborators are asked only by a
\* command line (Enter in Command mode) and by the refresh key.
EnvsOf(char) ==
    IF \/ im.inCommandMode /\ char \in {KeyEnter, KeyNewline}
       \/ ~im.inCommandMode /\ ~im.inSearchMode /\ char = "r"
    THEN Envs
    ELSE { CHOOSE env \in Envs : TRUE }

\* The modes a terminal can be in when Run is called.
TermModes == { "cooked", "noecho" }

\* term.MakeRaw(fd): the mode it puts the terminal in
MakeRaw(mode) == "raw"

\* The deferred term.Restore(fd, oldState), run when Run returns or panics.
Restore == termios' = oldState

\* Run: oldState, err := term.MakeRaw(fd); on an error Run returns it wrapped
RunMakeRaw(ok) ==
    /\ uiPc = "start"
    /\ IF ok
       THEN /\ oldState' = termios
            /\ termios' = MakeRaw(termios)
            /\ uiPc' = "frame"
       ELSE /\ uiPc' = "rawError"
            /\ UNCHANGED <<termios, oldState>>
    /\ UNCHANGED <<im, termBefore, outsideUi>>

\* Run, top of the loop: im.updateTerminalSize(); im.render()
RunFrame(size) ==
    /\ uiPc = "frame"
    /\ LET r == render(updateTerminalSize(im, size)) IN
          /\ im' = r.im
          /\ IF r.panic
             THEN uiPc' = "panic" /\ Restore
             ELSE uiPc' = "read" /\ UNCHANGED termios
    /\ UNCHANGED <<oldState, termBefore, outsideUi>>

\* Run: char, err := im.readChar(reader) with err == nil; im.handleInput(char)
RunKey(char, env) ==
    /\ uiPc = "read"
    /\ LET r == handleInput(im, char, env) IN
          /\ r.im.scrollOffset <= (IF Len(r.im.content) > MaxScroll
                                   THEN Len(r.im.content) ELSE MaxScroll)
          /\ r.im.scrollOffset >= 0 - MaxUnder
          /\ im' = r.im
          /\ IF r.quit
             THEN uiPc' = "quit" /\ Restore
             ELSE uiPc' = "frame" /\ UNCHANGED termios
    /\ UNCHANGED <<oldState, termBefore, outsideUi>>

\* Run: readChar returns an error (end of input); Run returns it, skipping
\* the restore.
RunReadError_SkipsRestore ==
    /\ uiPc = "read"
    /\ uiPc' = "error"
    /\ UNCHANGED <<im, termios, oldState, termBefore, outsideUi>>

\* Run: readChar returns an error (end of input) and Run returns it
RunReadError ==
    /\ uiPc = "read"
    /\ uiPc' = "error"
    /\ Restore
    /\ UNCHANGED <<im, oldState, termBefore, outsideUi>>

NextUiOver(sizes, cmdPrefixes, patPrefixes) ==
    \/ \E ok \in BOOLEAN : RunMakeRaw(ok)
    \/ \E size \in sizes : RunFrame(size)
    \/ \E char \in { c \in Runes : Typed(c, cmdPrefixes, patPrefixes) } :
          \E env \in EnvsOf(char) : RunKey(char, env)
    \/ RunReadError

\* Interactive mode started on one of the configurations and terminal sizes.
UiInitOver(sizes, modes) ==
    /\ ManagerInit
    /\ \E cfg \in Configs : \E size \in sizes : im = NewInteractiveMode(cfg, size)
    /\ uiPc = "start"
    /\ termios \in modes
    /\ oldState = "nil"
    /\ termBefore = termios
    /\ AuthInit

\* The runs that scroll, search and resize the terminal.
UiInit == UiInitOver(TermSizes, TermModes)

NextUi == NextUiOver(TermSizes, ScrollCommandPrefixes, SearchPrefixes)

UiSpec == UiInit /\ [][NextUi]_vars

\* The runs of the command dispatcher, on a terminal that keeps its size.
UiCommandInit == UiInitOver(SteadySizes, {"cooked"})

NextUiCommand == NextUiOver(SteadySizes, CommandPrefixes, {""})

UiCommandSpec == UiCommandInit /\ [][NextUiCommand]_vars

\* ------------------------------------------------------------------ claims
AllRequests == Requests \cup InvalidRequests

\* The last registry call was a StartConsumer that returned channels.
StartedOk == ret.op = "start" /\ ret.err = ""

\* The sessions of key k whose pump is forwarding and has not been told to stop.
RunningPumps(k) ==
    { s \in Sessions : Created(s) /\ KeyOf(session[s]) = k /\ InLoop(s) /\ Stop[s] = 0 }

\* C1: two StartConsumer calls with the same key and no other registry call in
\* between, the first call's session not having terminated, return the same
\* channel pair, and afterwards the one pump running for that key is that
\* session's.
C1_IdempotentStart ==
    [][\A req \in AllRequests :
          ( /\ StartedOk
            /\ ret.key = KeyOf(req)
            /\ pc[ret.sess] # "done"
            /\ StartConsumer(req)
            /\ ret'.err = "" )
          => ( /\ ret'.sess = ret.sess
               /\ pc'[ret'.sess] # "none"
               /\ RunningPumps(KeyOf(req))' \subseteq {ret'.sess} )]_vars

\* C2: a StartConsumer that follows a successful StopConsumer of the same key
\* opens a new session with its own pump, and no StartConsumer ever returns the
\* channels of a session whose stop signal has fired.
C2_NewSessionAfterStop ==
    /\ [](StartedOk => Stop[ret.sess] = 0 /\ pc[ret.sess] # "none")
    /\ [][\A req \in AllRequests :
             ( /\ ret.op = "stop" /\ ret.err = "" /\ ret.key = KeyOf(req)
               /\ StartConsumer(req)
               /\ ret'.err = "" )
             => ( /\ ret'.sess # ret.sess
                  /\ ret'.opened
                  /\ ret'.sess = nextId
                  /\ pc[ret'.sess] = "none" /\ pc'[ret'.sess] = "select"
                  /\ MessagesClosed'[ret'.sess] = 0 /\ ErrorsClosed'[ret'.sess] = 0 )]_vars

\* A session restarted while the pump of its stopped predecessor is still there.
C2_Witness ==
    /\ StartedOk
    /\ \E s \in Sessions :
          /\ Created(s) /\ s # ret.sess
          /\ KeyOf(session[s]) = ret.key
          /\ Stop[s] = 1 /\ pc[s] # "done"

\* C3: no two sessions of one key are both active (pump in its loop, stop not
\* signalled).
C3_OneActivePerKey ==
    \A k \in Keys : Cardinality(RunningPumps(k)) <= 1

\* C4: on every shutdown path the pump closes session.Messages once and
\* session.Errors once, after its loop, and no send meets a closed channel.
C4_ClosedExactlyOnce ==
    /\ ~sentOnClosed
    /\ \A s \in Sessions :
          /\ MessagesClosed[s] <= 1 /\ ErrorsClosed[s] <= 1
          /\ pc[s] \in {"deregister", "done"} => MessagesClosed[s] = 1 /\ ErrorsClosed[s] = 1
          /\ pc[s] \in {"none", "select", "sendMsg", "sendErr", "close"}
                => MessagesClosed[s] = 0 /\ ErrorsClosed[s] = 0

\* One pump has exited after a stop, another after its upstream stream closed.
C4_Witness ==
    \E s1, s2 \in Sessions :
        /\ pc[s1] = "done" /\ Stop[s1] = 1
        /\ pc[s2] = "done" /\ Stop[s2] = 0
        /\ MessagesClosed[s1] = 1 /\ ErrorsClosed[s1] = 1
        /\ MessagesClosed[s2] = 1 /\ ErrorsClosed[s2] = 1

\* The pump holds a message it cannot send (buffer full) and the stop has fired.
BlockedAndStopped(s) ==
    pc[s] = "sendMsg" /\ Len(Messages[s]) = MsgCap /\ Stop[s] > 0

\* C5: a pump blocked on a full message channel whose session is stopped
\* exits, and both output channels end up closed.
C5_StopUnblocksPump ==
    \A s \in Sessions :
        BlockedAndStopped(s)
            ~> (pc[s] = "done" /\ MessagesClosed[s] = 1 /\ ErrorsClosed[s] = 1)

C5_Witness == \E s \in Sessions : BlockedAndStopped(s)

\* No registered session was started for key k.
NoSessionFor(k) ==
    \A key \in DOMAIN consumers : KeyOf(session[consumers[key]]) # k

\* C6: StopConsumer for a key with no registered session returns an error and
\* changes neither the registry nor any stop signal nor any channel.
C6_StopUnknownKey ==
    [][\A req \in AllRequests :
          ( /\ NoSessionFor(KeyOf(req))
            /\ StopConsumer(req.Topic, req.GroupID, req.Partition) )
          => ( /\ ret'.err = "consumer not found"
               /\ UNCHANGED <<consumers, Stop, chanVars, upVars, pc, session, nextId>> )]_vars

\* C7: StartConsumer with an empty topic or an empty groupID returns an error
\* and creates no session.
C7_RejectsEmptyNames ==
    /\ (ret.op = "start" /\ (ret.key.Topic = "" \/ ret.key.GroupID = "")) => ret.err # ""
    /\ \A s \in Sessions :
          Created(s) => session[s].Topic # "" /\ session[s].GroupID # ""

\* C8: when ConsumePartition fails StartConsumer returns the error, registers
\* nothing and starts no pump; the next StartConsumer of that key calls
\* ConsumePartition again.
C8_CreationFailure ==
    /\ [][\A req \in AllRequests :
             (StartConsumer(req) /\ ret'.err = "failed to create partition consumer")
             => ( /\ ret'.opened /\ ret'.sess = 0
                  /\ sessionKey(req.Topic, req.GroupID, req.Partition) \notin DOMAIN consumers'
                  /\ UNCHANGED <<consumers, nextId, session, pc, Stop, chanVars, upVars>> )]_vars
    /\ [][\A req \in AllRequests :
             ( /\ ret.op = "start" /\ ret.err = "failed to create partition consumer"
               /\ ret.key = KeyOf(req)
               /\ connected
               /\ StartConsumer(req) )
             => ret'.opened]_vars

C8_Witness ==
    /\ ret.op = "start" /\ ret.err = "failed to create partition consumer"
    /\ ret.opened
    /\ consumers = << >>
    /\ nextId > 1

\* C9: with the client not connected StartConsumer returns an error, does not
\* call ConsumePartition and leaves the registry as it was.
C9_NotConnected ==
    [][\A req \in AllRequests :
          (~connected /\ StartConsumer(req))
          => ( /\ ret'.err = "client not connected"
               /\ ~ret'.opened /\ ret'.sess = 0
               /\ UNCHANGED <<consumers, nextId, session, pc, Stop, chanVars, upVars>> )]_vars

C9_Witness ==
    /\ ret.op = "start" /\ ret.err = "client not connected"
    /\ consumers # << >>

\* The offsets the upstream stream of a session delivers, in order.
Upstream(n) == [i \in 1..n |-> i]

\* C10: what a session has sent on its message channel is a prefix of what its
\* upstream stream delivered, in order, without duplicate or gap: while the
\* pump is in its loop all it has received but the message in hand has been
\* sent, and the channel holds the latest of them in order.
C10_OrderPreserved ==
    \A s \in Sessions :
        /\ Len(sent[s]) <= upMsgs[s]
        /\ sent[s] = Upstream(Len(sent[s]))
        /\ InLoop(s) => Len(sent[s]) = upMsgs[s] - (IF pc[s] = "sendMsg" THEN 1 ELSE 0)
        /\ Len(Messages[s]) <= Len(sent[s])
        /\ Messages[s] = SubSeq(sent[s], Len(sent[s]) - Len(Messages[s]) + 1, Len(sent[s]))

C10_Witness ==
    \E s \in Sessions : Len(sent[s]) = 2 /\ Messages[s] = <<2>>

\* C12: StartConsumer calls whose tuples differ return distinct sessions, and
\* stopping one of two such sessions leaves the other registered and running.
C12_DistinctSessions ==
    /\ [][\A req \in AllRequests :
             ( /\ StartedOk /\ ret.key # KeyOf(req)
               /\ StartConsumer(req) /\ ret'.err = "" )
             => ret'.sess # ret.sess]_vars
    /\ [][\A req \in AllRequests : \A s \in Sessions :
             ( /\ Created(s) /\ KeyOf(session[s]) # KeyOf(req)
               /\ \E key \in DOMAIN consumers : consumers[key] = s
               /\ StopConsumer(req.Topic, req.GroupID, req.Partition) )
             => ( /\ \E key \in DOMAIN consumers' : consumers'[key] = s
                  /\ Stop'[s] = Stop[s] )]_vars

\* -------------------------------------------------------------- fair runs
\* The Go scheduler runs a goroutine that can take a step, and a select whose
\* stop case is ready takes it in the end.  Nothing makes the broker deliver
\* or a caller read.
PumpAbort(s) == PumpStop(s) \/ PumpSendMessageStop(s) \/ PumpSendErrorStop(s)

PumpInternal(s) ==
    PumpSendMessage(s) \/ PumpSendError(s) \/ PumpClose(s) \/ PumpDeregister(s)

NextFair == NextOver(FairRequests)

FairSpec ==
    /\ Init
    /\ [][NextFair]_vars
    /\ \A s \in Sessions :
          /\ WF_vars(PumpAbort(s))
          /\ WF_vars(PumpInternal(s))

\* The fair runs of two sessions on two partitions.
NextPartitions == NextOver(PartitionRequests)

FairSpecPartitions ==
    /\ Init
    /\ [][NextPartitions]_vars
    /\ \A s \in Sessions :
          /\ WF_vars(PumpAbort(s))
          /\ WF_vars(PumpInternal(s))

\* The fair runs of the consume command: its select takes the timeout case
\* once the timer has fired, the case being ready at every iteration.
ConsumeSpec ==
    /\ Init
    /\ [][NextConsume]_vars
    /\ WF_vars(ConsumeTimeout)
    /\ \A s \in Sessions :
          /\ WF_vars(PumpAbort(s))
          /\ WF_vars(PumpInternal(s))

\* C11: StopAllConsumers leaves the registry empty and closes, once, the stop
\* channel of every session that was registered; the pump of each of those
\* sessions then closes both of its output channels.
C11_StopAllStopsEverySession ==
    /\ [][StopAllConsumers
            => ( /\ consumers' = << >>
                 /\ ret'.stopped = { consumers[k] : k \in DOMAIN consumers }
                 /\ \A s \in ret'.stopped : Stop'[s] = 1 )]_vars
    /\ \A s \in Sessions :
          (ret.op = "stopAll" /\ s \in ret.stopped)
              ~> (MessagesClosed[s] = 1 /\ ErrorsClosed[s] = 1)

\* StopAllConsumers stopped two sessions, one of them blocked on a full channel,
\* and both pumps have closed their channels.
C11_Witness ==
    /\ ret.op = "stopAll"
    /\ \E s1, s2 \in ret.stopped :
          /\ s1 # s2
          /\ Len(Messages[s1]) = MsgCap
          /\ pc[s1] = "done" /\ pc[s2] = "done"
          /\ MessagesClosed[s1] = 1 /\ ErrorsClosed[s2] = 1

\* ------------------------------------------------ claims: interactive mode
NormalMode(m) == ~m.inCommandMode /\ ~m.inSearchMode

\* max(0, len(content) - visibleLines)
MaxOffset(m) ==
    IF Len(m.content) - m.visibleLines < 0 THEN 0 ELSE Len(m.content) - m.visibleLines

ValidScroll(m) == 0 <= m.scrollOffset /\ m.scrollOffset <= MaxOffset(m)

ScrollKeys == {"j", "k", "f", "b", "g", "G"}

\* C13: in Normal mode a scroll key pressed in a state whose scrollOffset is
\* within [0, max(0, len(content) - visibleLines)] leaves it within that range.
C13_ScrollStaysInRange ==
    [][\A char \in ScrollKeys : \A env \in Envs :
          ( /\ NormalMode(im) /\ ValidScroll(im)
            /\ RunKey(char, env) )
          => ValidScroll(im')]_vars

\* C14: in every frame getVisibleContent slices content within its bounds.
C14_RenderInBounds ==
    uiPc \in {"read", "panic"} => ~getVisibleContent(im).panic

\* C15: inCommandMode and inSearchMode are never both true.
C15_OneMode == ~(im.inCommandMode /\ im.inSearchMode)

\* Search mode with text typed, entered after Command mode was left.
C15_Witness ==
    /\ im.inSearchMode /\ ~im.inCommandMode
    /\ im.searchPattern = ":q"
    /\ im.statusMsg = "Command cancelled"

\* C16: ':' and '/' enter their mode with an empty buffer, and Escape or Enter
\* in Command or Search mode leaves the controller in Normal mode with both
\* buffers empty, whatever was typed.
C16_EscapeEnterReturnToNormal ==
    [][\A env \in Envs :
          /\ (NormalMode(im) /\ RunKey(":", env))
                => (im'.inCommandMode /\ ~im'.inSearchMode /\ im'.currentCmd = "")
          /\ (NormalMode(im) /\ RunKey("/", env))
                => (im'.inSearchMode /\ ~im'.inCommandMode /\ im'.searchPattern = "")
          /\ \A char \in {KeyEscape, KeyEnter, KeyNewline} :
                (~NormalMode(im) /\ RunKey(char, env))
                => ( /\ NormalMode(im')
                     /\ im'.currentCmd = "" /\ im'.searchPattern = "" )]_vars

\* Escape has discarded a typed command line.
C16_Witness ==
    /\ uiPc = "frame"
    /\ NormalMode(im)
    /\ im.currentCmd = ""
    /\ im.statusMsg = "Command cancelled"
    /\ im.currentView = "groups"

UpperCase == "ABCDEFGHIJKLMNOPQRSTUVWXYZ"
LowerCase == "abcdefghijklmnopqrstuvwxyz"

ToLowerChar(c) ==
    IF \E i \in 1..Len(UpperCase) : SubSeq(UpperCase, i, i) = c
    THEN LET i == CHOOSE i \in 1..Len(UpperCase) : SubSeq(UpperCase, i, i) = c
         IN SubSeq(LowerCase, i, i)
    ELSE c

RECURSIVE ToLower(_)
ToLower(s) == IF s = "" THEN "" ELSE ToLowerChar(Head(s)) \o ToLower(Tail(s))

\* line contains pattern, letter case ignored
ContainsFold(line, pattern) ==
    LET l == ToLower(line)
        q == ToLower(pattern) IN
    \E i \in 1..(Len(l) - Len(q) + 1) : SubSeq(l, i, i + Len(q) - 1) = q

\* The index (from 0) of the first line of content that contains pattern, -1
\* when there is none.
FirstMatch(content, pattern) ==
    LET M == { i \in 1..Len(content) : ContainsFold(content[i], pattern) } IN
    IF M = {} THEN -1 ELSE (CHOOSE i \in M : \A j \in M : i <= j) - 1

\* C17: Enter in Search mode with a non-empty pattern moves scrollOffset to
\* max(0, i - 2) when line i is the first that contains the pattern (case
\* ignored), and leaves scrollOffset alone when no line does.
C17_SearchJumpsToMatch ==
    [][\A env \in Envs :
          ( /\ im.inSearchMode /\ im.searchPattern # ""
            /\ RunKey(KeyEnter, env) )
          => LET i == FirstMatch(im.content, im.searchPattern) IN
             IF i >= 0
             THEN im'.scrollOffset = (IF i - 2 < 0 THEN 0 ELSE i - 2)
             ELSE im'.scrollOffset = im.scrollOffset]_vars

\* C18: Enter in Command mode on a line whose first token is quit, q or exit
\* ends the session, further tokens or not.
C18_QuitVerbEndsSession ==
    [][\A env \in Envs :
          ( /\ im.inCommandMode
            /\ Len(Fields(im.currentCmd)) > 0
            /\ Fields(im.currentCmd)[1] \in {"quit", "q", "exit"}
            /\ RunKey(KeyEnter, env) )
          => uiPc' = "quit"]_vars

\* C19: 'profile use <name>' sets ActiveProfile to a configured name; for a
\* name that is not configured it reports not-found in statusMsg and leaves
\* ActiveProfile, content, currentView and scrollOffset as they were.
C19_ProfileUse ==
    [][\A env \in Envs :
          LET parts == Fields(im.currentCmd) IN
          ( /\ im.inCommandMode
            /\ Len(parts) >= 3
            /\ parts[1] \in {"profile", "p"} /\ parts[2] = "use"
            /\ RunKey(KeyEnter, env) )
          => IF parts[3] \in DOMAIN im.cfg.Profiles
             THEN im'.cfg.ActiveProfile = parts[3]
             ELSE /\ im'.statusMsg = "Profile not found: " \o parts[3]
                  /\ im'.cfg = im.cfg
                  /\ im'.content = im.content
                  /\ im'.currentView = im.currentView
                  /\ im'.scrollOffset = im.scrollOffset]_vars

\* 'p use x' was refused while dev was the active profile and topics shown.
C19_Witness ==
    /\ im.statusMsg = "Profile not found: x"
    /\ im.cfg.ActiveProfile = "dev"
    /\ im.currentView = "topics"

\* showTopics cannot produce a listing.
TopicsFails(m, t) ==
    \/ m.cfg.ActiveProfile = ""
    \/ t.connectErr # ""
    \/ t.listErr # ""

\* C20: a topics command that cannot produce a listing sets statusMsg to the
\* failure, leaves content, currentView and scrollOffset as they were, and the
\* loop goes on in Normal mode.
C20_TopicsFailureKeepsView ==
    [][\A env \in Envs :
          LET parts == Fields(im.currentCmd) IN
          ( /\ im.inCommandMode
            /\ Len(parts) > 0 /\ parts[1] \in {"topics", "t"}
            /\ TopicsFails(im, env.topics)
            /\ RunKey(KeyEnter, env) )
          => ( /\ im'.statusMsg =
                     ( IF im.cfg.ActiveProfile = ""
                       THEN "No active profile set"
                       ELSE IF env.topics.connectErr # ""
                       THEN "Failed to connect: " \o env.topics.connectErr
                       ELSE "Failed to list topics: " \o env.topics.listErr )
               /\ im'.content = im.content
               /\ im'.currentView = im.currentView
               /\ im'.scrollOffset = im.scrollOffset
               /\ NormalMode(im')
               /\ uiPc' = "frame" )]_vars

\* A topics command failed to list while the groups view was on the screen.
C20_Witness ==
    /\ uiPc = "frame"
    /\ im.statusMsg = "Failed to list topics: request timed out"
    /\ im.currentView = "groups"
    /\ Len(im.content) = 4

\* ----------------------------------------------------------------------
\* C21: whenever Run has returned, after a quit and after a read error, the
\* terminal is in the mode it had when Run was called; the terminal is raw
\* while the loop runs; when entering raw mode fails Run returns the error
\* and the terminal is in the mode it had.
Returned == uiPc \in {"quit", "error", "rawError"}

C21_TerminalRestored ==
    /\ Returned => termios = termBefore
    /\ uiPc \in {"frame", "read"} => termios = MakeRaw(termBefore)
    /\ uiPc = "rawError" => oldState = "nil"

\* Run has returned on a read error from a terminal that was not cooked.
C21_Witness ==
    /\ uiPc = "error"
    /\ termBefore = "noecho"
    /\ oldState = "noecho"

\* ----------------------------------------------------------------------
\* C22: what a render pass writes depends on nothing but content,
\* scrollOffset, the mode, the buffers, width, height, the view and the
\* active profile, so two passes over the same values of these write the
\* same; and the pass of one loop iteration leaves content, scrollOffset,
\* the mode and the buffers as they were.
\*
\* The struct that agrees with m on what the claim lists and holds fixed
\* values in every other field.
RenderedFields(m) ==
    [cfg |-> [ActiveProfile |-> m.cfg.ActiveProfile, Profiles |-> << >>],
     currentView |-> m.currentView,
     content |-> m.content,
     statusMsg |-> "",
     width |-> m.width,
     height |-> m.height,
     inCommandMode |-> m.inCommandMode,
     inSearchMode |-> m.inSearchMode,
     currentCmd |-> m.currentCmd,
     searchPattern |-> m.searchPattern,
     scrollOffset |-> m.scrollOffset,
     visibleLines |-> m.height - ReservedLines]

C22_RenderDeterministic ==
    /\ [](/\ renderOutput(im) = renderOutput(RenderedFields(im))
          /\ render(im).panic = render(RenderedFields(im)).panic)
    /\ [][(\E size \in TermSizes : RunFrame(size))
            => /\ im'.content = im.content
               /\ im'.scrollOffset = im.scrollOffset
               /\ im'.inCommandMode = im.inCommandMode
               /\ im'.inSearchMode = im.inSearchMode
               /\ im'.currentCmd = im.currentCmd
               /\ im'.searchPattern = im.searchPattern]_vars

\* A pass has drawn a Command mode buffer over content scrolled past its
\* range, with a status message the pass does not show.
C22_Witness ==
    /\ uiPc = "read"
    /\ im.inCommandMode
    /\ im.currentCmd = "q"
    /\ im.scrollOffset > Len(im.content)
    /\ im.statusMsg # ""
    /\ Len(renderOutput(im)) = 3 + 6 + 1

\* ----------------------------------------------------------------------
\* C23: Token returns the cached token, generating nothing, exactly when
\* the cached token is non-empty and the time is more than one minute
\* before its expiry; otherwise it generates a token, and when that succeeds
\* it stores it with an expiry 15 minutes ahead and returns it; a token it
\* returns is never one that has expired.
StillValid == token # "" /\ now < expiresAt - RefreshBuffer

C23_TokenCache ==
    [][\A ok \in BOOLEAN : Token(ok) =>
         /\ StillValid =>
               /\ ~tokenRet'.generated
               /\ tokenRet'.tok = token
               /\ UNCHANGED <<token, expiresAt>>
         /\ ~StillValid =>
               /\ tokenRet'.generated
               /\ ok => /\ tokenRet'.tok = generateToken(now)
                         /\ token' = tokenRet'.tok
                         /\ expiresAt' = now + TokenValidity
               /\ token # "" => tokenRet'.tok # token
         /\ tokenRet'.tok # "nil" =>
               /\ tokenRet'.tok = token'
               /\ now < expiresAt']_vars

\* Token was called exactly one minute before the expiry of the token it
\* held, and returned another one.
C23_Witness ==
    /\ tokenRet.generated
    /\ tokenRet.had = generateToken(now - (TokenValidity - RefreshBuffer))
    /\ tokenRet.tok = generateToken(now)
    /\ expiresAt = now + TokenValidity

\* ----------------------------------------------------------------------
\* C24: the deferred delete of a terminating pump removes the registry entry
\* of its own session and no other: a session registered under the same key
\* by a later StartConsumer is still registered after the step.
C24_DeregistersOwnSession ==
    [][\A s \in Sessions :
          PumpDeregister(s) =>
              \A k \in DOMAIN consumers :
                  consumers[k] # s =>
                      /\ k \in DOMAIN consumers'
                      /\ consumers'[k] = consumers[k]]_vars

\* ----------------------------------------------------------------------
\* C25: once the stop signal of a session has fired and its pump is back at
\* the top of its loop, the pump delivers nothing more: the messages it has
\* sent on session.Messages stay what they are, whatever the upstream offers
\* and whatever room the channel has.
C25_NoDeliveryAfterStop ==
    \A s \in Sessions : \A n \in 0..MaxEvents :
        []( (Stop[s] > 0 /\ pc[s] = "select" /\ Len(sent[s]) = n)
              => [](Len(sent[s]) = n) )

\* ----------------------------------------------------------------------
\* C26: the partition consumer a successful StartConsumer opened is closed
\* by the pump of its own session and by nothing else, once, when that pump
\* terminates: it is open while the pump is in its loop, every session that
\* was created has a pump, and the handle of every pump that has left its
\* loop and run its closes is closed.
C26_HandleClosedOnce ==
    /\ [](\A s \in Sessions :
            /\ ConsumerClosed[s] <= 1
            /\ Created(s) => pc[s] # "none"
            /\ ~Created(s) => ConsumerClosed[s] = 0
            /\ (InLoop(s) \/ pc[s] = "close") => ConsumerClosed[s] = 0
            /\ pc[s] \in {"deregister", "done"} => ConsumerClosed[s] = 1)
    /\ [][\A s \in Sessions :
             ConsumerClosed'[s] # ConsumerClosed[s] => PumpClose(s)]_vars

\* Every session opened in the run has been stopped or has ended, all the
\* pumps have exited, and all the handles are closed.
C26_Witness ==
    /\ nextId = 3
    /\ \A s \in 1..2 : pc[s] = "done" /\ ConsumerClosed[s] = 1
    /\ Stop[1] = 1 /\ Stop[2] = 0

\* ----------------------------------------------------------------------
\* C27: a non-nil upstream error does not end the pump.  The pump that took
\* it goes to the send on session.Errors; the send puts it on the channel
\* and takes the pump back to the top of its loop with the registry and the
\* open channels as they were; and with an error in hand the pump leaves
\* its loop only if the stop signal has fired.
C27_ErrorKeepsPumpRunning ==
    [][\A s \in Sessions :
          /\ PumpRecvError(s) =>
                /\ pc'[s] = "sendErr"
                /\ UNCHANGED <<consumers, chanVars>>
          /\ PumpSendError(s) =>
                /\ Errors'[s] = Errors[s] + 1
                /\ pc'[s] = "select"
                /\ MessagesClosed'[s] = 0 /\ ErrorsClosed'[s] = 0
                /\ UNCHANGED <<consumers, Messages>>
          /\ (pc[s] = "sendErr" /\ pc'[s] # "sendErr") =>
                \/ pc'[s] = "select"
                \/ Stop[s] > 0]_vars

\* A pump that forwarded an error has then taken the next message, with no
\* stop signalled and its session registered.
C27_Witness ==
    \E s \in Sessions :
        /\ upErrs[s] = 1 /\ Errors[s] = 1
        /\ upMsgs[s] = 1 /\ pc[s] = "sendMsg" /\ sent[s] = << >>
        /\ Stop[s] = 0
        /\ SessionKeyOf(s) \in DOMAIN consumers /\ consumers[SessionKeyOf(s)] = s
        /\ MessagesClosed[s] = 0 /\ ErrorsClosed[s] = 0

C30_TopAndBottom ==
    /\ [](im.visibleLines = im.height - 4)
    /\ [][\A env \in Envs :
             /\ (NormalMode(im) /\ RunKey("G", env)) =>
                   /\ im'.scrollOffset = MaxOffset(im)
                   /\ (im.height = 10 /\ Len(im.content) = 20) => im'.scrollOffset = 14
             /\ (NormalMode(im) /\ RunKey("g", env)) => im'.scrollOffset = 0]_vars

\* G was pressed on the 20 lines of the topics view at height 10.
C30_Witness ==
    /\ uiPc = "frame"
    /\ NormalMode(im)
    /\ im.currentView = "topics"
    /\ Len(im.content) = 20
    /\ im.height = 10
    /\ im.scrollOffset = 14

\* ----------------------------------------------------------------------
\* C31: in Command mode and in Search mode the keys bound in Normal mode are
\* text: each of q, j, k, f, b, g, G, r, ':' and '/' is appended to the
\* buffer of the mode, the session does not quit, and nothing else of the
\* controller changes, scrollOffset, content and currentView included.
BoundKeys == {"q", "j", "k", "f", "b", "g", "G", "r", ":", "/"}

C31_BindingsSuspended ==
    (im.inCommandMode \/ im.inSearchMode) =>
        \A char \in BoundKeys : \A env \in Envs :
            LET r == handleInput(im, char, env) IN
            /\ ~r.quit
            /\ r.im = IF im.inCommandMode
                      THEN [im EXCEPT !.currentCmd = @ \o char]
                      ELSE [im EXCEPT !.searchPattern = @ \o char]

\* The user has typed q and / into the Command mode buffer.
C31_Witness ==
    /\ uiPc = "frame"
    /\ im.inCommandMode
    /\ im.currentCmd = "q/"

\* ----------------------------------------------------------------------
\* C32: Search mode edits its buffer as Command mode does: a printable
\* character is appended to searchPattern, Backspace removes its last
\* character, and Ctrl+U empties it, the controller staying in Search mode.
C32_SearchEditingKeys ==
    [][\A env \in Envs :
          /\ \A char \in {c \in Runes : IsPrintable(c)} :
                (im.inSearchMode /\ RunKey(char, env)) =>
                    im'.searchPattern = im.searchPattern \o char /\ im'.inSearchMode
          /\ \A char \in {KeyDelete, KeyBackspace} :
                (im.inSearchMode /\ RunKey(char, env)) =>
                    /\ im'.searchPattern =
                          SubSeq(im.searchPattern, 1, Len(im.searchPattern) - 1)
                    /\ im'.inSearchMode
          /\ (im.inSearchMode /\ RunKey(KeyCtrlU, env)) =>
                im'.searchPattern = "" /\ im'.inSearchMode]_vars

\* ----------------------------------------------------------------------
\* C33: Enter in Command mode on a buffer that is empty once trimmed only
\* leaves the mode: the controller is in Normal mode with an empty buffer,
\* the session goes on, and every other field, content, currentView,
\* scrollOffset, statusMsg and the active profile among them, is as it was.
C33_EmptyLineIsNoOp ==
    [][\A char \in {KeyEnter, KeyNewline} : \A env \in Envs :
          ( /\ im.inCommandMode
            /\ TrimSpace(im.currentCmd) = ""
            /\ RunKey(char, env) )
          => ( /\ uiPc' = "frame"
               /\ im' = [im EXCEPT !.inCommandMode = FALSE, !.currentCmd = ""] )]_vars

\* The buffer holds one space and the loop waits for the next key, after a
\* command that set a status message.
C33_Witness ==
    /\ uiPc = "read"
    /\ im.inCommandMode
    /\ im.currentCmd = " "
    /\ im.statusMsg = "Screen cleared"

\* ----------------------------------------------------------------------
\* C34: the clear command leaves an empty content at scrollOffset 0 and a
\* view that no refresh fetches for: the r key pressed on the cleared
\* screen leaves the content empty.
C34_ClearedViewHasNoRefresh ==
    [][\A env \in Envs :
          /\ ( /\ im.inCommandMode
               /\ TrimSpace(im.currentCmd) \in {"c", "clear"}
               /\ RunKey(KeyEnter, env) )
             => (im'.content = << >> /\ im'.scrollOffset = 0)
          /\ ( /\ NormalMode(im)
               /\ im.content = << >>
               /\ im.statusMsg = "Screen cleared"
               /\ RunKey("r", env) )
             => im'.content = << >>]_vars

\* ----------------------------------------------------------------------
\* C35: a scroll key that meets the boundary overwrites statusMsg: k pressed
\* at scrollOffset 0, and j pressed at the maximum offset, while statusMsg
\* still holds the greeting of the start, leave another message.
Greeting == "Ready - Type :help for commands"

C35_BoundaryOverwritesStatus ==
    [][\A env \in Envs :
          /\ ( /\ NormalMode(im) /\ im.statusMsg = Greeting
               /\ im.scrollOffset = 0
               /\ RunKey("k", env) )
             => im'.statusMsg # Greeting
          /\ ( /\ NormalMode(im) /\ im.statusMsg = Greeting
               /\ ValidScroll(im) /\ im.scrollOffset = MaxOffset(im)
               /\ RunKey("j", env) )
             => im'.statusMsg # Greeting]_vars

\* ----------------------------------------------------------------------
\* C36: the frame just drawn holds exactly visibleLines (height - 4) content
\* rows: the visible content lines first, cut to the width, and blank rows
\* for the remainder.
C36_DrawsVisibleLinesRows ==
    uiPc = "read" =>
        LET ct   == renderContent(im)
            real == getVisibleContent(im).lines IN
        /\ ~ct.panic
        /\ im.visibleLines = im.height - 4
        /\ Len(ct.lines) = im.visibleLines
        /\ \A i \in 1..Len(ct.lines) :
              ct.lines[i] = IF i <= Len(real)
                            THEN Truncate(real[i], im.width) \o "\n"
                            ELSE "\n"

\* ----------------------------------------------------------------------
\* C37: under every interleaving of StartConsumer, StopConsumer,
\* StopAllConsumers and the pumps, the stop channel of a session is closed
\* at most once.
C37_StopClosedAtMostOnce ==
    \A s \in Sessions : Stop[s] <= 1

\* A StopAllConsumers has closed the stop channel of a session after a
\* StopConsumer closed that of another one.
C37_Witness ==
    /\ ret.op = "stopAll" /\ ret.stopped # {}
    /\ \E s \in Sessions \ ret.stopped : Stop[s] = 1

\* ----------------------------------------------------------------------
\* C38: at the moment a StartConsumer returns without error, the two
\* channels it returns are open: neither has been closed by the pump of the
\* session they belong to.
C38_ReturnedChannelsOpen ==
    [][\A req \in Requests :
          (StartConsumer(req) /\ ret'.err = "")
             => /\ MessagesClosed'[ret'.sess] = 0
                /\ ErrorsClosed'[ret'.sess] = 0]_vars

\* ----------------------------------------------------------------------
\* C39: a GetTopicMessages call that has entered its collecting loop
\* returns, whether or not maxMessages messages ever arrive.
C39_GetTopicMessagesReturns ==
    (gtm.pc = "loop") ~> (gtm.pc = "returned")

====
